---- MODULE Spec2Model ----
(***************************************************************************)
(* Structured generation pipeline: the three text generators               *)
(* (LibrarianService.extract_topics, ImageSteeringService.                 *)
(* generate_image_prompts, AIDirectorService.generate_lesson_manifest),    *)
(* their generate -> parse -> validate -> retry control flow, and the      *)
(* LessonManifest validators.                                              *)
(*                                                                         *)
(* One call chain is one behaviour.  A generator coroutine is cut at its   *)
(* single await: Issue is the code from entry up to the provider call,     *)
(* ProviderRespond is the provider's answer (text, no text, or an          *)
(* exception), and the generator's own action is the code from the resume  *)
(* up to return, raise or the recursive re-invocation.                     *)
(*                                                                         *)
(* Durations are kept in 1/Centi of a second so that 180.01 is a value.    *)
(*                                                                         *)
(* Asset pipeline: AssetFactoryService.generate_assets runs one job per    *)
(* prompt under asyncio.gather; a job is cut at its network calls (SpecAssets). *)
(* SjinnToolClient.poll_task_output_urls is also modelled on its own with  *)
(* the event loop's clock in whole seconds (SpecPoll).                     *)
(* Each specification leaves the variables of the other two at rest.       *)
(***************************************************************************)
EXTENDS Integers, Sequences, FiniteSets, TLC

\* One call chain of a text generator.
VARIABLES gen, provider, asset_ids, retry_count, calls, pc,
          response, handled, validation, result, err, log

\* One run of SjinnToolClient.poll_task_output_urls.
VARIABLES now, deadline, poll_count, waits, poll_pc, poll_response, poll_out

\* One call of AssetFactoryService.generate_assets.
VARIABLES ai_config, image_prompts, jobs, finished, ga_pc, ga_out

text_vars == <<gen, provider, asset_ids, retry_count, calls, pc,
               response, handled, validation, result, err, log>>

poll_vars == <<now, deadline, poll_count, waits, poll_pc, poll_response, poll_out>>

asset_vars == <<ai_config, image_prompts, jobs, finished, ga_pc, ga_out>>

\* One call of AssetFactoryService._process_image_with_smart_key.
VARIABLES key_image, key_alpha, key_pc

\* The audio reconciliation of one lesson request.
VARIABLES endpoint, audio_bytes, probe, audio_duration, manifest_duration,
          lesson_pc, lesson_out

\* The backend selection of one stage call.
VARIABLES svc, req_config, settings_key, res_pc, res_out

key_vars == <<key_image, key_alpha, key_pc>>

lesson_vars == <<endpoint, audio_bytes, probe, audio_duration, manifest_duration,
                 lesson_pc, lesson_out>>

res_vars == <<svc, req_config, settings_key, res_pc, res_out>>

\* One call of extract_json on the characters of a response.
VARIABLES shape, inner_text, raw_text, json_pc, json_out

json_vars == <<shape, inner_text, raw_text, json_pc, json_out>>

\* One lesson request from its arrival to its answer.
VARIABLES pipe_endpoint, lesson_manifest, narration_texts, elevenlabs_api_key,
          settings_elevenlabs_api_key, tts_answer, mp3_probe, mp3_length,
          pipe_pc, stages, pipe_audio, pipe_out

pipe_vars == <<pipe_endpoint, lesson_manifest, narration_texts, elevenlabs_api_key,
               settings_elevenlabs_api_key, tts_answer, mp3_probe, mp3_length,
               pipe_pc, stages, pipe_audio, pipe_out>>

\* The client each service singleton keeps, and the service calls in flight.
VARIABLES singleton_client, requests, default_api_key

cache_vars == <<singleton_client, requests, default_api_key>>

vars == <<text_vars, poll_vars, asset_vars, key_vars, lesson_vars, res_vars, json_vars, pipe_vars, cache_vars>>

(***************************************************************************)
(* Bounds of the model and constants of the program.                       *)
(***************************************************************************)
Centi == 100
MaxPad == 5
MaxTail == 1
MaxImages == 7
MaxTopics == 2
MaxLatency == 2
MaxOversleep == 1
MaxPrompts == 2
MaxPolls == 2

MaxLessonDurationSec == 180
\* The scene limit taken one too high.
MaxSceneCount_off_by_one == 5 + 1

MaxSceneCount == 5
RequiredPromptCount == 5
MaxRetries == 1
MinScore == 1
MaxScore == 10

Generators == {"librarian", "steering", "director"}
Providers == {"gemini", "openaiCompatible"}

None == [kind |-> "none"]

\* No poll loop is running.
PollAtRest ==
    /\ now = 0
    /\ deadline = 0
    /\ poll_count = 0
    /\ waits = <<>>
    /\ poll_pc = "off"
    /\ poll_response = None
    /\ poll_out = None

\* No generate_assets call is running.
AssetsAtRest ==
    /\ ai_config = None
    /\ image_prompts = <<>>
    /\ jobs = <<>>
    /\ finished = <<>>
    /\ ga_pc = "off"
    /\ ga_out = None

\* No image is being keyed.
KeyAtRest ==
    /\ key_image = <<>>
    /\ key_alpha = <<>>
    /\ key_pc = "off"

\* No lesson request is being reconciled.
LessonAtRest ==
    /\ endpoint = "none"
    /\ audio_bytes = FALSE
    /\ probe = "none"
    /\ audio_duration = 0
    /\ manifest_duration = 0
    /\ lesson_pc = "off"
    /\ lesson_out = None

\* No stage is selecting its backend.
ResAtRest ==
    /\ svc = "none"
    /\ req_config = None
    /\ settings_key = ""
    /\ res_pc = "off"
    /\ res_out = None

\* At rest: one call of extract_json on the characters of a response.
JsonAtRest ==
    /\ shape = "none"
    /\ inner_text = <<>>
    /\ raw_text = <<>>
    /\ json_pc = "off"
    /\ json_out = None

\* At rest: one lesson request from its arrival to its answer.
PipeAtRest ==
    /\ pipe_endpoint = "none"
    /\ lesson_manifest = None
    /\ narration_texts = <<>>
    /\ elevenlabs_api_key = ""
    /\ settings_elevenlabs_api_key = ""
    /\ tts_answer = "none"
    /\ mp3_probe = "none"
    /\ mp3_length = 0
    /\ pipe_pc = "off"
    /\ stages = <<>>
    /\ pipe_audio = "none"
    /\ pipe_out = None

\* At rest: the client each service singleton keeps, and the service calls in flight.
CacheAtRest ==
    /\ singleton_client = <<>>
    /\ requests = <<>>
    /\ default_api_key = ""

\* No text generator is running.
TextAtRest ==
    /\ gen = "none"
    /\ provider = "none"
    /\ asset_ids = <<>>
    /\ retry_count = 0
    /\ calls = 0
    /\ pc = "off"
    /\ response = None
    /\ handled = None
    /\ validation = [ran |-> FALSE, errors |-> {}]
    /\ result = None
    /\ err = None
    /\ log = <<>>

(***************************************************************************)
(* Sequences of bounded length.                                            *)
(***************************************************************************)
SeqUpTo(S, n) == UNION {[1..k -> S] : k \in 0..n}

Rep(x, n) == [i \in 1..n |-> x]

Range(s) == {s[i] : i \in 1..Len(s)}

(***************************************************************************)
(* Lesson manifest data (schemas/lesson.py).                               *)
(***************************************************************************)
InteractionType == {"quiz", "pauseAndThink", "labelPrediction", "none"}

VisualEvent(a, c) == [asset_id |-> a, checkpoint_id |-> c]

Scene(vo, ev, it) == [voiceover |-> vo, events |-> ev, interaction |-> it]

\* A scene that breaks no rule and has no interaction.
NeutralScene == Scene(<<"cp1">>, <<VisualEvent("asset_0", "cp1")>>, "none")

SceneCatalog ==
    { Scene(<<"cp1", "cp2">>, <<VisualEvent("asset_0", "cp1")>>, "quiz"),
      NeutralScene,
      Scene(<<"cp2">>, <<VisualEvent("asset_0", "cp1")>>, "pauseAndThink"),
      Scene(<<"cp1">>, <<VisualEvent("asset_1", "cp1")>>, "labelPrediction"),
      Scene(<<>>, <<>>, "none") }

\* Scene lists a provider may return: a run of neutral scenes followed by
\* any short list of catalog scenes.
SceneLists ==
    { Rep(NeutralScene, n) \o t : n \in 0..MaxPad, t \in SeqUpTo(SceneCatalog, MaxTail) }

Durations == { -Centi, 0, 1, MaxLessonDurationSec * Centi, MaxLessonDurationSec * Centi + 1 }

\* JSON objects of the lesson manifest shape; well_typed = FALSE stands for
\* a missing field, a wrong type or a value outside an enum.
ManifestObjects ==
    [shape : {"object"}, well_typed : {TRUE},
     lesson_duration_sec : Durations, scenes : SceneLists]
    \cup { [shape |-> "object", well_typed |-> FALSE,
            lesson_duration_sec |-> Centi, scenes |-> <<NeutralScene>>] }

\* validate_duration with "v < 0" for "v <= 0".
validate_duration_zero_allowed(v) ==
    IF v < 0 THEN "Lesson duration must be positive"
    ELSE IF v > MaxLessonDurationSec * Centi
         THEN "Lesson duration must not exceed 180 seconds"
         ELSE "ok"

\* LessonManifest.validate_duration: "ok" or the ValueError it raises.
validate_duration(v) ==
    IF v <= 0 THEN "Lesson duration must be positive"
    ELSE IF v > MaxLessonDurationSec * Centi
         THEN "Lesson duration must not exceed 180 seconds"
         ELSE "ok"

checkpoint_ids_voiceover(scene) == Range(scene.voiceover)

checkpoint_ids_events(scene) == {scene.events[i].checkpoint_id : i \in 1..Len(scene.events)}

\* The set difference taken the other way round.
missing_in_voiceover_reversed(scene) ==
    checkpoint_ids_voiceover(scene) \ checkpoint_ids_events(scene)

missing_in_voiceover(scene) == checkpoint_ids_events(scene) \ checkpoint_ids_voiceover(scene)

\* Only the first scene is looked at.
has_required_interaction_first_scene(v) == Len(v) > 0 /\ v[1].interaction # "none"

has_required_interaction(v) == \E i \in 1..Len(v) : v[i].interaction # "none"

\* LessonManifest.validate_scenes: "ok" or the ValueError it raises.
validate_scenes(v) ==
    IF Len(v) = 0 THEN "Lesson must contain at least one scene"
    ELSE IF Len(v) > MaxSceneCount THEN "Lesson must not contain more than 5 scenes"
    ELSE IF \E i \in 1..Len(v) : missing_in_voiceover(v[i]) # {} THEN "Checkpoint mismatch"
    ELSE IF ~ has_required_interaction(v) THEN "Lesson must contain an interaction"
    ELSE "ok"

\* Field lesson_duration_sec: the constraint le=180, then validate_duration.
lesson_duration_sec_errors(v) ==
    IF v > MaxLessonDurationSec * Centi THEN {"less_than_equal"}
    ELSE IF validate_duration(v) # "ok" THEN {validate_duration(v)}
    ELSE {}

\* Field scenes: the constraint max_length=5, then validate_scenes.
scenes_errors(v) ==
    IF Len(v) > MaxSceneCount THEN {"too_long"}
    ELSE IF validate_scenes(v) # "ok" THEN {validate_scenes(v)}
    ELSE {}

\* LessonManifest(**result): the errors of the ValidationError pydantic
\* raises, over all fields; none if the manifest is constructed.
LessonManifest(obj) ==
    IF ~ obj.well_typed THEN {"type_error"}
    ELSE lesson_duration_sec_errors(obj.lesson_duration_sec) \cup scenes_errors(obj.scenes)

(***************************************************************************)
(* Topic and image-prompt payloads (schemas/analyze.py,                    *)
(* schemas/image_generation.py).                                           *)
(***************************************************************************)
Scores == {MinScore - 1, MinScore, MaxScore, MaxScore + 1}

TopicObjects ==
    [shape : {"object"}, well_typed : BOOLEAN, topics : SeqUpTo(Scores, MaxTopics)]

\* AnalyzeResponse(**result): every topic's visual_potential_score has ge=1, le=10.
AnalyzeResponse(obj) ==
    IF ~ obj.well_typed THEN {"type_error"}
    ELSE {"greater_than_equal" : i \in {j \in 1..Len(obj.topics) : obj.topics[j] < MinScore}}
         \cup {"less_than_equal" : i \in {j \in 1..Len(obj.topics) : obj.topics[j] > MaxScore}}

\* An image prompt is named by the position it had in the provider's answer;
\* has_prefix says whether its text contains MANDATORY_PROMPT_PREFIX.
ImageLists ==
    UNION { { [i \in 1..k |-> [image_prompt |-> i, has_prefix |-> f[i]]] : f \in [1..k -> BOOLEAN] }
            : k \in 0..MaxImages }

ImageObjects ==
    [shape : {"object"}, well_typed : {TRUE}, images : ImageLists]
    \cup { [shape |-> "object", well_typed |-> FALSE, images |-> <<>>] }

\* ImageSteeringResponse(**result): images has min_length=1.
ImageSteeringResponse(obj) ==
    IF ~ obj.well_typed THEN {"type_error"}
    ELSE IF Len(obj.images) < 1 THEN {"too_short"}
    ELSE {}

missing_prefix_indices(images) == {i \in 1..Len(images) : ~ images[i].has_prefix}

(***************************************************************************)
(* What a text-generation provider can answer.                             *)
(***************************************************************************)
AuthSignals == {"api key", "authentication", "401"}

\* An exception out of the provider call: a timeout, a network error or an
\* error status, with the auth words its text contains.
ProviderErrors ==
    [kind : {"error"}, cause : {"timeout", "network", "status"}, signals : SUBSET AuthSignals]

EmptyResponse == [kind |-> "empty"]

NonObjects == { [shape |-> "array"], [shape |-> "string"], [shape |-> "number"] }

ObjectsOf(g) ==
    CASE g = "librarian" -> TopicObjects
      [] g = "steering" -> ImageObjects
      [] g = "director" -> ManifestObjects

\* A text answer: a JSON value as it stands ("plain"), inside a Markdown code
\* fence ("fenced"), inside prose ("prose"), or text holding no JSON at all.
TextsOf(g) ==
    [kind : {"text"}, wrap : {"plain", "fenced", "prose"}, value : ObjectsOf(g) \cup NonObjects]
    \cup { [kind |-> "text", wrap |-> "garbage", value |-> None] }

ResponsesOf(g) == ProviderErrors \cup {EmptyResponse} \cup TextsOf(g)

JSONDecodeError == [shape |-> "JSONDecodeError"]

\* json.loads(text): only text that is JSON as it stands parses.
json_loads(text) == IF text.wrap = "plain" THEN text.value ELSE JSONDecodeError

\* json_utils.extract_json(text): the fence is stripped, then a direct parse,
\* then the slice from the first opening to the last closing bracket.
extract_json(text) ==
    IF text.wrap \in {"plain", "fenced", "prose"} THEN text.value ELSE JSONDecodeError

(***************************************************************************)
(* Exceptions (services/exceptions.py).                                    *)
(***************************************************************************)
\* What pydantic reported in this invocation, if the schema was applied.
NotValidated == [ran |-> FALSE, errors |-> {}]

Raise(class, code, reason) ==
    [act |-> "raise", err |-> [class |-> class, code |-> code, reason |-> reason],
     result |-> None, validation |-> NotValidated]

Retry == [act |-> "retry", err |-> None, result |-> None, validation |-> NotValidated]

Return(value) == [act |-> "return", err |-> None, result |-> value, validation |-> NotValidated]

\* Outcome o of an invocation in which the schema reported errs.
Validated(errs, o) == [o EXCEPT !.validation = [ran |-> TRUE, errors |-> errs]]

\* What the chain remembers of an answer it handled: the payload is dropped
\* but for the number of image prompts it held (0 when it held none).
Summary(resp) ==
    IF resp.kind = "text"
    THEN [kind |-> "text", wrap |-> resp.wrap,
          images |-> IF "images" \in DOMAIN resp.value THEN Len(resp.value.images) ELSE 0]
    ELSE resp

InvalidAPIKeyError == Raise("InvalidAPIKeyError", "INVALID_API_KEY", "invalid or not configured")

TopicExtractionFailedError(reason) ==
    Raise("TopicExtractionFailedError", "TOPIC_EXTRACTION_FAILED", reason)

ImagePromptGenerationError(reason) ==
    Raise("ImagePromptGenerationError", "IMAGE_PROMPT_GENERATION_FAILED", reason)

InvalidImagePromptCountError ==
    Raise("InvalidImagePromptCountError", "INVALID_IMAGE_PROMPT_COUNT", "wrong count")

LessonScriptGenerationError(reason) ==
    Raise("LessonScriptGenerationError", "LESSON_SCRIPT_GENERATION_FAILED", reason)

InvalidLessonDurationError ==
    Raise("InvalidLessonDurationError", "INVALID_LESSON_DURATION", "exceeds maximum")

InvalidSceneCountError ==
    Raise("InvalidSceneCountError", "INVALID_SCENE_COUNT", "exceeds maximum")

\* The test without its "401" disjunct.
is_auth_error_without_401(signals) == signals \cap {"api key", "authentication"} # {}

\* "api key" in error_str or "authentication" in error_str or "401" in error_str
is_auth_error(signals) == signals \cap AuthSignals # {}

\* The guard written "retry_count <= 1".
may_retry_once_more(rc) == rc <= MaxRetries

\* if retry_count < 1
may_retry(rc) == rc < MaxRetries

(***************************************************************************)
(* The three generators, from the resume after the provider call to        *)
(* return, raise or re-invocation.  Each yields what the coroutine does    *)
(* next.  The recursive call sits inside the caller's try block, and every *)
(* exception a generator can raise is re-raised unchanged by the caller's  *)
(* except clauses, so the outcome of the chain is the outcome of its last  *)
(* invocation.                                                             *)
(***************************************************************************)

\* LibrarianService.extract_topics
extract_topics_step(prov, rc, resp) ==
    IF resp.kind = "error"
    THEN IF is_auth_error(resp.signals) THEN InvalidAPIKeyError
         ELSE TopicExtractionFailedError("provider error")
    ELSE IF resp.kind = "empty"
    THEN IF prov = "openaiCompatible"
         THEN TopicExtractionFailedError("provider error")
         ELSE TopicExtractionFailedError("empty response")
    ELSE LET parsed == extract_json(resp) IN
         IF parsed.shape = "JSONDecodeError"
         THEN IF may_retry(rc) THEN Retry ELSE TopicExtractionFailedError("invalid json")
         ELSE IF parsed.shape # "object"
         THEN TopicExtractionFailedError("provider error")
         ELSE LET errs == AnalyzeResponse(parsed) IN
              IF errs = {}
              THEN Validated(errs, Return(parsed))
              ELSE IF may_retry(rc) THEN Validated(errs, Retry)
                   ELSE Validated(errs, TopicExtractionFailedError("validation failed"))

\* The slice taken from the end of the list.
truncate_images_last(images) ==
    IF Len(images) > RequiredPromptCount
    THEN SubSeq(images, Len(images) - RequiredPromptCount + 1, Len(images))
    ELSE images

\* validated.images[:REQUIRED_PROMPT_COUNT] when more prompts were returned.
truncate_images(images) ==
    IF Len(images) > RequiredPromptCount
    THEN SubSeq(images, 1, RequiredPromptCount)
    ELSE images

\* ImageSteeringService.generate_image_prompts
generate_image_prompts_step(rc, resp) ==
    IF resp.kind = "error"
    THEN IF is_auth_error(resp.signals) THEN InvalidAPIKeyError
         ELSE ImagePromptGenerationError("provider error")
    ELSE IF resp.kind = "empty"
    THEN ImagePromptGenerationError("empty response")
    ELSE LET parsed == json_loads(resp) IN
         IF parsed.shape = "JSONDecodeError"
         THEN IF may_retry(rc) THEN Retry ELSE ImagePromptGenerationError("invalid json")
         ELSE IF parsed.shape # "object"
         THEN ImagePromptGenerationError("provider error")
         ELSE LET errs == ImageSteeringResponse(parsed) IN
              IF errs # {}
              THEN IF may_retry(rc) THEN Validated(errs, Retry)
                   ELSE Validated(errs, ImagePromptGenerationError("validation failed"))
              ELSE LET images == truncate_images(parsed.images)
                   IN Validated(errs,
                        IF Len(images) < RequiredPromptCount
                        THEN IF may_retry(rc) THEN Retry ELSE InvalidImagePromptCountError
                        ELSE IF missing_prefix_indices(images) # {}
                        THEN IF may_retry(rc) THEN Retry
                             ELSE ImagePromptGenerationError("missing prefix")
                        ELSE Return([parsed EXCEPT !.images = images]))

\* The asset ID loop looking at the first scene only.
invalid_asset_reference_first_scene(scenes, ids) ==
    \E i \in 1..Len(scenes) : \E j \in 1..Len(scenes[i].events) :
        i = 1 /\ scenes[i].events[j].asset_id \notin Range(ids)

\* the asset ID loop of generate_lesson_manifest
invalid_asset_reference(scenes, ids) ==
    \E i \in 1..Len(scenes) : \E j \in 1..Len(scenes[i].events) :
        scenes[i].events[j].asset_id \notin Range(ids)

\* AIDirectorService.generate_lesson_manifest
generate_lesson_manifest_step(prov, rc, resp, ids) ==
    IF resp.kind = "error"
    THEN IF is_auth_error(resp.signals) THEN InvalidAPIKeyError
         ELSE LessonScriptGenerationError("provider error")
    ELSE IF resp.kind = "empty"
    THEN IF prov = "openaiCompatible"
         THEN LessonScriptGenerationError("provider error")
         ELSE LessonScriptGenerationError("empty response")
    ELSE LET parsed == IF prov = "openaiCompatible" THEN extract_json(resp) ELSE json_loads(resp) IN
         IF parsed.shape = "JSONDecodeError"
         THEN IF may_retry(rc) THEN Retry ELSE LessonScriptGenerationError("invalid json")
         ELSE IF parsed.shape # "object"
         THEN LessonScriptGenerationError("provider error")
         ELSE LET errs == LessonManifest(parsed) IN
              IF errs # {}
              THEN IF may_retry(rc) THEN Validated(errs, Retry)
                   ELSE Validated(errs, LessonScriptGenerationError("validation failed"))
              ELSE Validated(errs,
                     IF parsed.lesson_duration_sec > MaxLessonDurationSec * Centi
                     THEN InvalidLessonDurationError
                     ELSE IF Len(parsed.scenes) > MaxSceneCount
                     THEN InvalidSceneCountError
                     ELSE IF invalid_asset_reference(parsed.scenes, ids)
                     THEN LessonScriptGenerationError("invalid asset reference")
                     ELSE Return(parsed))

(***************************************************************************)
(* State machine of one call chain.                                        *)
(***************************************************************************)
Init ==
    /\ gen \in Generators
    /\ provider \in (IF gen = "steering" THEN {"gemini"} ELSE Providers)
    /\ asset_ids \in (IF gen = "director"
                      THEN {<<"asset_0">>, <<"asset_0", "asset_1">>}
                      ELSE {<<>>})
    /\ retry_count = 0
    /\ calls = 0
    /\ pc = "calling"
    /\ response = None
    /\ handled = None
    /\ validation = NotValidated
    /\ result = None
    /\ err = None
    /\ log = <<>>
    /\ PollAtRest
    /\ AssetsAtRest
    /\ KeyAtRest
    /\ LessonAtRest
    /\ ResAtRest
    /\ JsonAtRest
    /\ PipeAtRest
    /\ CacheAtRest

\* Entry of the coroutine up to its await: the provider call is sent.
Issue ==
    /\ pc = "calling"
    /\ calls' = calls + 1
    /\ pc' = "awaiting"
    /\ handled' = None
    /\ validation' = NotValidated
    /\ UNCHANGED <<gen, provider, asset_ids, retry_count, response, result, err, log>>
    /\ UNCHANGED <<poll_vars, asset_vars, key_vars, lesson_vars, res_vars, json_vars, pipe_vars, cache_vars>>

\* The provider answers the call in flight.
ProviderRespond ==
    /\ pc = "awaiting"
    /\ \E r \in ResponsesOf(gen) : response' = r
    /\ pc' = "received"
    /\ UNCHANGED <<gen, provider, asset_ids, retry_count, calls, handled, validation,
                   result, err, log>>
    /\ UNCHANGED <<poll_vars, asset_vars, key_vars, lesson_vars, res_vars, json_vars, pipe_vars, cache_vars>>

\* The re-invocation passing retry_count on instead of retry_count + 1,
\* for the first two invocations.
Continue_same_count(o) ==
    /\ handled' = response
    /\ response' = None
    /\ log' = Append(log, Summary(response))
    /\ validation' = o.validation
    /\ result' = o.result
    /\ err' = o.err
    /\ retry_count' = IF o.act = "retry" /\ calls >= 2 THEN retry_count + 1 ELSE retry_count
    /\ pc' = CASE o.act = "retry" -> "calling"
               [] o.act = "return" -> "done"
               [] o.act = "raise" -> "failed"
    /\ UNCHANGED <<gen, provider, asset_ids, calls>>
    /\ UNCHANGED <<poll_vars, asset_vars, key_vars, lesson_vars, res_vars, json_vars, pipe_vars, cache_vars>>

\* The coroutine goes on with outcome o of its step.
Continue(o) ==
    /\ handled' = response
    /\ response' = None
    /\ log' = Append(log, Summary(response))
    /\ validation' = o.validation
    /\ result' = o.result
    /\ err' = o.err
    /\ retry_count' = IF o.act = "retry" THEN retry_count + 1 ELSE retry_count
    /\ pc' = CASE o.act = "retry" -> "calling"
               [] o.act = "return" -> "done"
               [] o.act = "raise" -> "failed"
    /\ UNCHANGED <<gen, provider, asset_ids, calls>>
    /\ UNCHANGED <<poll_vars, asset_vars, key_vars, lesson_vars, res_vars, json_vars, pipe_vars, cache_vars>>

extract_topics ==
    /\ pc = "received"
    /\ gen = "librarian"
    /\ Continue(extract_topics_step(provider, retry_count, response))

generate_image_prompts ==
    /\ pc = "received"
    /\ gen = "steering"
    /\ Continue(generate_image_prompts_step(retry_count, response))

generate_lesson_manifest ==
    /\ pc = "received"
    /\ gen = "director"
    /\ Continue(generate_lesson_manifest_step(provider, retry_count, response, asset_ids))

Next ==
    \/ Issue
    \/ ProviderRespond
    \/ extract_topics
    \/ generate_image_prompts
    \/ generate_lesson_manifest

Spec == Init /\ [][Next]_vars

\* Every step is a step of the running coroutine or of the provider, both of
\* which the event loop keeps scheduling (each network call has a timeout).
FairSpec == Spec /\ WF_vars(Next)

TypeOK ==
    /\ gen \in Generators
    /\ provider \in Providers
    /\ retry_count \in Nat
    /\ calls \in Nat
    /\ pc \in {"calling", "awaiting", "received", "done", "failed"}

(***************************************************************************)
(* SjinnToolClient.poll_task_output_urls.  Time is the event loop's clock  *)
(* in whole seconds, counted from the entry of the function.               *)
(***************************************************************************)
max_wait_seconds == 120

\* Every wait twice the one before.
sleep_seconds_doubling(k) == IF k = 1 THEN 2 ELSE 2 * waits[k - 1]

interval_seconds == 2

\* The argument of the k-th asyncio.sleep of the loop.
sleep_seconds(k) == interval_seconds

\* Parts of an error text that the asset factory's handler looks for.
ErrorSignals == {{}, {"401"}}

OutputUrls == {<<>>, <<"url_1">>, <<"url_1", "url_2">>}

\* Answers to a query_tool_task_status request: an HTTP status >= 400,
\* "success" false, a payload (status 1 completed, -1 failed, 0 for any
\* other value), or an exception of the HTTP client.
PollResponses ==
    [kind : {"http_error", "not_success"}, signals : ErrorSignals]
    \cup [kind : {"payload"}, status : {0, 1, -1}, output_urls : OutputUrls]
    \cup {[kind |-> "client_error"]}

RuntimeError(cause, signals) ==
    [act |-> "raise", class |-> "RuntimeError", cause |-> cause, signals |-> signals]

ClientError == [act |-> "raise", class |-> "ClientError", cause |-> "network", signals |-> {}]

\* The completed branch returning whatever output_urls holds.
poll_step_returns_empty(resp, time, dl) ==
    IF resp.kind = "client_error" THEN ClientError
    ELSE IF resp.kind = "http_error" THEN RuntimeError("query_status http", resp.signals)
    ELSE IF resp.kind = "not_success" THEN RuntimeError("query_status failed", resp.signals)
    ELSE IF resp.status = 1
    THEN [act |-> "return", output_urls |-> resp.output_urls]
    ELSE IF resp.status = -1 THEN RuntimeError("task failed", {})
    ELSE IF time >= dl THEN RuntimeError("timeout", {})
    ELSE [act |-> "sleep"]

\* One turn of the while loop from the answer to the request on: what the
\* loop does with answer resp at clock reading time and deadline dl.
poll_step(resp, time, dl) ==
    IF resp.kind = "client_error" THEN ClientError
    ELSE IF resp.kind = "http_error" THEN RuntimeError("query_status http", resp.signals)
    ELSE IF resp.kind = "not_success" THEN RuntimeError("query_status failed", resp.signals)
    ELSE IF resp.status = 1
    THEN IF resp.output_urls = <<>>
         THEN RuntimeError("no output_urls", {})
         ELSE [act |-> "return", output_urls |-> resp.output_urls]
    ELSE IF resp.status = -1 THEN RuntimeError("task failed", {})
    ELSE IF time >= dl THEN RuntimeError("timeout", {})
    ELSE [act |-> "sleep"]

InitPoll ==
    /\ TextAtRest
    /\ AssetsAtRest
    /\ KeyAtRest
    /\ LessonAtRest
    /\ ResAtRest
    /\ JsonAtRest
    /\ PipeAtRest
    /\ CacheAtRest
    /\ now = 0
    /\ deadline = 0
    /\ poll_count = 0
    /\ waits = <<>>
    /\ poll_pc = "start"
    /\ poll_response = None
    /\ poll_out = None

\* Entry of the function up to the loop: the deadline is fixed.
poll_enter ==
    /\ poll_pc = "start"
    /\ deadline' = now + max_wait_seconds
    /\ poll_count' = 0
    /\ poll_pc' = "polling"
    /\ UNCHANGED <<now, waits, poll_response, poll_out>>
    /\ UNCHANGED <<text_vars, asset_vars, key_vars, lesson_vars, res_vars, json_vars, pipe_vars, cache_vars>>

\* The turn of the loop raising on every status other than completed.
poll_request_unknown_status_raises ==
    /\ poll_pc = "polling"
    /\ \E latency \in 0..MaxLatency : \E resp \in PollResponses :
          LET o == IF resp.kind = "payload" /\ resp.status # 1
                   THEN RuntimeError("task failed", {})
                   ELSE poll_step(resp, now + latency, deadline) IN
          /\ poll_count' = poll_count + 1
          /\ now' = now + latency
          /\ poll_response' = resp
          /\ poll_out' = o
          /\ poll_pc' = CASE o.act = "return" -> "returned"
                         [] o.act = "raise" -> "raised"
                         [] o.act = "sleep" -> "sleeping"
          /\ waits' = IF o.act = "sleep"
                      THEN Append(waits, sleep_seconds(Len(waits) + 1))
                      ELSE waits
    /\ UNCHANGED deadline
    /\ UNCHANGED <<text_vars, asset_vars, key_vars, lesson_vars, res_vars, json_vars, pipe_vars, cache_vars>>

\* One turn of the loop: the request is sent, its answer comes latency
\* seconds later, and the loop returns, raises or goes to sleep.
poll_request ==
    /\ poll_pc = "polling"
    /\ \E latency \in 0..MaxLatency : \E resp \in PollResponses :
          LET o == poll_step(resp, now + latency, deadline) IN
          /\ poll_count' = poll_count + 1
          /\ now' = now + latency
          /\ poll_response' = resp
          /\ poll_out' = o
          /\ poll_pc' = CASE o.act = "return" -> "returned"
                         [] o.act = "raise" -> "raised"
                         [] o.act = "sleep" -> "sleeping"
          /\ waits' = IF o.act = "sleep"
                      THEN Append(waits, sleep_seconds(Len(waits) + 1))
                      ELSE waits
    /\ UNCHANGED deadline
    /\ UNCHANGED <<text_vars, asset_vars, key_vars, lesson_vars, res_vars, json_vars, pipe_vars, cache_vars>>

\* asyncio.sleep is over, no earlier than asked for.
poll_wake ==
    /\ poll_pc = "sleeping"
    /\ \E oversleep \in 0..MaxOversleep : now' = now + waits[Len(waits)] + oversleep
    /\ poll_pc' = "polling"
    /\ UNCHANGED <<deadline, poll_count, waits, poll_response, poll_out>>
    /\ UNCHANGED <<text_vars, asset_vars, key_vars, lesson_vars, res_vars, json_vars, pipe_vars, cache_vars>>

NextPoll ==
    \/ poll_enter
    \/ poll_request
    \/ poll_wake

SpecPoll == InitPoll /\ [][NextPoll]_vars

\* The event loop resumes the coroutine when an answer or the end of a sleep
\* is due: aiohttp's session timeout bounds every request.
FairSpecPoll == SpecPoll /\ WF_vars(NextPoll)

(***************************************************************************)
(* AssetFactoryService.generate_assets: one job per prompt, all of them    *)
(* run by asyncio.gather.  Prompts are named by their index in the         *)
(* request (0, 1, ...); an image is named by the prompt it was made for.   *)
(* A job's network call and its answer are one step of the job.            *)
(***************************************************************************)
ImageProviders == {"gemini", "openaiCompatible", "sjinn"}

\* configured: the block of the selected REST provider is present, or, for
\* gemini, the resolved API key is not empty.
AIProviderConfigs == [provider : ImageProviders, configured : BOOLEAN]

Stages == {"Created", "Submitted", "Polling", "Completed", "Downloaded", "Processed", "Failed"}

NewJob(prompt) ==
    [prompt |-> prompt, stage |-> "Created", hist |-> <<>>, requests |-> 0, polls |-> 0,
     fallback |-> FALSE, output_urls |-> <<>>, image |-> None, err |-> None]

\* Raw bytes of an image of a prompt; decodable says whether cv2.imdecode
\* reads them.
ImageBytes(prompt, decodable) == [kind |-> "bytes", of |-> prompt, decodable |-> decodable]

TransparentPng(prompt) == [kind |-> "png", of |-> prompt]

ImageGenerationError(code, cause) ==
    [class |-> "ImageGenerationError", code |-> code, cause |-> cause, signals |-> {}]

ImageProcessingError ==
    [class |-> "ImageProcessingError", code |-> "IMAGE_PROCESSING_ERROR", cause |-> "decode"]

\* The except clauses that end _generate_image_bytes.
image_bytes_error(e) ==
    IF e.class = "InvalidAPIKeyError"
    THEN [class |-> "InvalidAPIKeyError", code |-> "INVALID_API_KEY", cause |-> e.cause]
    ELSE IF is_auth_error(e.signals)
    THEN [class |-> "InvalidAPIKeyError", code |-> "INVALID_API_KEY", cause |-> e.cause]
    ELSE [class |-> "ImageGenerationError", code |-> "IMAGE_GENERATION_FAILED", cause |-> e.cause]

\* Answers to a generation request (create task, images, chat completions,
\* generateContent): image data or a task id, a well-formed answer without
\* them, or an error whose text may name a 404 and may hold auth words.
GenerationResponses ==
    [kind : {"ok"}, decodable : BOOLEAN]
    \cup {[kind |-> "missing"]}
    \cup [kind : {"error"}, not_found : BOOLEAN, signals : ErrorSignals]

DownloadResponses ==
    [kind : {"ok"}, decodable : BOOLEAN] \cup [kind : {"error"}, signals : ErrorSignals]

Failed(job, e) ==
    [job EXCEPT !.stage = "Failed", !.hist = Append(@, "Failed"), !.err = e]

Moved(job, stage) ==
    [job EXCEPT !.stage = stage, !.hist = Append(@, stage)]

InitAssets ==
    /\ TextAtRest
    /\ PollAtRest
    /\ KeyAtRest
    /\ LessonAtRest
    /\ ResAtRest
    /\ JsonAtRest
    /\ PipeAtRest
    /\ CacheAtRest
    /\ ai_config \in AIProviderConfigs
    /\ \E n \in 0..MaxPrompts : image_prompts = [i \in 1..n |-> i - 1]
    /\ jobs = <<>>
    /\ finished = <<>>
    /\ ga_pc = "start"
    /\ ga_out = None

\* Entry of generate_assets up to the await of gather: one coroutine per
\* prompt, in the order of the prompts.
generate_assets_call ==
    /\ ga_pc = "start"
    /\ jobs' = [i \in 1..Len(image_prompts) |-> NewJob(image_prompts[i])]
    /\ ga_pc' = "gathering"
    /\ UNCHANGED <<ai_config, image_prompts, finished, ga_out>>
    /\ UNCHANGED <<text_vars, poll_vars, key_vars, lesson_vars, res_vars, json_vars, pipe_vars, cache_vars>>

\* Job i goes on as job j; a job that ended is noted in the order of ending.
Step(i, j) ==
    /\ jobs' = [jobs EXCEPT ![i] = j]
    /\ finished' = IF j.stage \in {"Processed", "Failed"} THEN Append(finished, i) ELSE finished
    /\ UNCHANGED <<ai_config, image_prompts, ga_pc, ga_out>>
    /\ UNCHANGED <<text_vars, poll_vars, key_vars, lesson_vars, res_vars, json_vars, pipe_vars, cache_vars>>

Running(i) == ga_pc = "gathering" /\ i \in 1..Len(jobs)

\* SJinn: the config check and create_nano_banana_task.
sjinn_create_task(i) ==
    /\ Running(i)
    /\ ai_config.provider = "sjinn"
    /\ jobs[i].stage = "Created"
    /\ IF ~ ai_config.configured
       THEN Step(i, Failed(jobs[i],
                    image_bytes_error(ImageGenerationError("IMAGE_PROVIDER_CONFIG_MISSING", "config"))))
       ELSE \E resp \in GenerationResponses :
              LET sent == [jobs[i] EXCEPT !.requests = @ + 1] IN
              IF resp.kind = "ok" THEN Step(i, Moved(sent, "Submitted"))
              ELSE IF resp.kind = "missing"
              THEN Step(i, Failed(sent, image_bytes_error(RuntimeError("create_task", {}))))
              ELSE Step(i, Failed(sent, image_bytes_error(RuntimeError("create_task", resp.signals))))

\* SJinn: one turn of poll_task_output_urls; expired says whether the
\* deadline has passed when the answer is in, which it has at the latest
\* at turn MaxPolls.
sjinn_poll(i) ==
    /\ Running(i)
    /\ ai_config.provider = "sjinn"
    /\ jobs[i].stage \in {"Submitted", "Polling"}
    /\ \E resp \in PollResponses : \E expired \in BOOLEAN :
          /\ jobs[i].polls + 1 >= MaxPolls => expired
          /\ LET polling == IF jobs[i].stage = "Submitted" THEN Moved(jobs[i], "Polling") ELSE jobs[i]
                 polled == [polling EXCEPT !.polls = @ + 1]
                 o == poll_step(resp, IF expired THEN max_wait_seconds ELSE 0, max_wait_seconds)
             IN  CASE o.act = "return" ->
                        Step(i, [Moved(polled, "Completed") EXCEPT !.output_urls = o.output_urls])
                   [] o.act = "raise" -> Step(i, Failed(polled, image_bytes_error(o)))
                   [] o.act = "sleep" -> Step(i, polled)

\* The download started on a job still being polled.
sjinn_download_while_polling(i) ==
    /\ Running(i)
    /\ ai_config.provider = "sjinn"
    /\ jobs[i].stage \in {"Polling", "Completed"}
    /\ \E resp \in DownloadResponses :
          IF resp.kind = "ok"
          THEN Step(i, [Moved(jobs[i], "Downloaded") EXCEPT
                            !.image = ImageBytes(jobs[i].prompt, resp.decodable)])
          ELSE Step(i, Failed(jobs[i], image_bytes_error(RuntimeError("download", resp.signals))))

\* SJinn: download_bytes of output_urls[0].
sjinn_download(i) ==
    /\ Running(i)
    /\ ai_config.provider = "sjinn"
    /\ jobs[i].stage = "Completed"
    /\ \E resp \in DownloadResponses :
          IF resp.kind = "ok"
          THEN Step(i, [Moved(jobs[i], "Downloaded") EXCEPT
                            !.image = ImageBytes(jobs[i].prompt, resp.decodable)])
          ELSE Step(i, Failed(jobs[i], image_bytes_error(RuntimeError("download", resp.signals))))

\* OpenAI-compatible: the config check and images_generations; an error
\* whose text names a 404 leads to the chat-completions request.
openai_images_generations(i) ==
    /\ Running(i)
    /\ ai_config.provider = "openaiCompatible"
    /\ jobs[i].stage = "Created"
    /\ ~ jobs[i].fallback
    /\ IF ~ ai_config.configured
       THEN Step(i, Failed(jobs[i],
                    image_bytes_error(ImageGenerationError("IMAGE_PROVIDER_CONFIG_MISSING", "config"))))
       ELSE \E resp \in GenerationResponses :
              LET sent == [jobs[i] EXCEPT !.requests = @ + 1] IN
              IF resp.kind = "ok"
              THEN Step(i, [Moved(sent, "Downloaded") EXCEPT
                                !.image = ImageBytes(jobs[i].prompt, resp.decodable)])
              ELSE IF resp.kind = "missing"
              THEN Step(i, Failed(sent, image_bytes_error(
                                ImageGenerationError("IMAGE_GENERATION_FAILED", "images"))))
              ELSE IF resp.not_found
              THEN Step(i, [sent EXCEPT !.fallback = TRUE])
              ELSE Step(i, Failed(sent, image_bytes_error(RuntimeError("images", resp.signals))))

\* The chat-completions request sent again after an error answer.
openai_chat_completions_retrying(i) ==
    /\ Running(i)
    /\ ai_config.provider = "openaiCompatible"
    /\ jobs[i].stage = "Created"
    /\ jobs[i].fallback
    /\ jobs[i].requests < 3
    /\ \E resp \in GenerationResponses :
          LET sent == [jobs[i] EXCEPT !.requests = @ + 1] IN
          IF resp.kind = "ok"
          THEN Step(i, [Moved(sent, "Downloaded") EXCEPT
                            !.image = ImageBytes(jobs[i].prompt, resp.decodable)])
          ELSE IF resp.kind = "missing"
          THEN Step(i, Failed(sent, image_bytes_error(
                            ImageGenerationError("IMAGE_GENERATION_FAILED", "chat"))))
          ELSE Step(i, sent)

\* OpenAI-compatible: chat_completions_message after a 404 of the Images API.
openai_chat_completions(i) ==
    /\ Running(i)
    /\ ai_config.provider = "openaiCompatible"
    /\ jobs[i].stage = "Created"
    /\ jobs[i].fallback
    /\ \E resp \in GenerationResponses :
          LET sent == [jobs[i] EXCEPT !.requests = @ + 1] IN
          IF resp.kind = "ok"
          THEN Step(i, [Moved(sent, "Downloaded") EXCEPT
                            !.image = ImageBytes(jobs[i].prompt, resp.decodable)])
          ELSE IF resp.kind = "missing"
          THEN Step(i, Failed(sent, image_bytes_error(
                            ImageGenerationError("IMAGE_GENERATION_FAILED", "chat"))))
          ELSE Step(i, Failed(sent, image_bytes_error(RuntimeError("chat", resp.signals))))

\* Gemini: the key check and gemini_rest_client.generate_image_bytes, whose
\* exceptions are wrapped with their text in ImageGenerationError.
gemini_generate_image_bytes(i) ==
    /\ Running(i)
    /\ ai_config.provider = "gemini"
    /\ jobs[i].stage = "Created"
    /\ IF ~ ai_config.configured
       THEN Step(i, Failed(jobs[i], image_bytes_error(
                        [class |-> "InvalidAPIKeyError", cause |-> "config", signals |-> {}])))
       ELSE \E resp \in GenerationResponses :
              LET sent == [jobs[i] EXCEPT !.requests = @ + 1] IN
              IF resp.kind = "ok"
              THEN Step(i, [Moved(sent, "Downloaded") EXCEPT
                                !.image = ImageBytes(jobs[i].prompt, resp.decodable)])
              ELSE IF resp.kind = "missing"
              THEN Step(i, Failed(sent, image_bytes_error(RuntimeError("gemini", {}))))
              ELSE Step(i, Failed(sent, image_bytes_error(RuntimeError("gemini", resp.signals))))

\* _process_image_with_smart_key on the bytes _generate_image_bytes returned.
process_image_with_smart_key(i) ==
    /\ Running(i)
    /\ jobs[i].stage = "Downloaded"
    /\ IF jobs[i].image.decodable
       THEN Step(i, [Moved(jobs[i], "Processed") EXCEPT !.image = TransparentPng(jobs[i].image.of)])
       ELSE Step(i, Failed([jobs[i] EXCEPT !.image = None], ImageProcessingError))

\* The outcomes listed in the order in which the jobs ended.
gather_completion_order == [k \in 1..Len(finished) |-> jobs[finished[k]]]

\* asyncio.gather(*tasks, return_exceptions=True): the outcome of every job,
\* in the order of the tasks.
gather == [i \in 1..Len(jobs) |-> jobs[i]]

\* The loop over results leaving the exceptions out.
collect_skipping_exceptions(results) ==
    [act |-> "return",
     value |-> [k \in 1..Cardinality({i \in 1..Len(results) : results[i].stage = "Processed"}) |->
                  results[CHOOSE i \in 1..Len(results) :
                            /\ results[i].stage = "Processed"
                            /\ Cardinality({j \in 1..i : results[j].stage = "Processed"}) = k].image]]

\* The loop over results: the first exception in task order is raised,
\* otherwise the list of processed images is returned.
collect(results) ==
    LET failed == {i \in 1..Len(results) : results[i].stage = "Failed"} IN
    IF failed # {}
    THEN [act |-> "raise", index |-> (CHOOSE i \in failed : \A j \in failed : i <= j) - 1,
          error |-> results[CHOOSE i \in failed : \A j \in failed : i <= j].err]
    ELSE [act |-> "return", value |-> [i \in 1..Len(results) |-> results[i].image]]

\* gather with return_exceptions=True delivers when every job has ended.
gather_ready == \A i \in 1..Len(jobs) : jobs[i].stage \in {"Processed", "Failed"}

\* generate_assets from the resume after gather to its return or raise.
generate_assets_collect ==
    /\ ga_pc = "gathering"
    /\ gather_ready
    /\ ga_out' = collect(gather)
    /\ ga_pc' = IF collect(gather).act = "return" THEN "returned" ELSE "raised"
    /\ UNCHANGED <<ai_config, image_prompts, jobs, finished>>
    /\ UNCHANGED <<text_vars, poll_vars, key_vars, lesson_vars, res_vars, json_vars, pipe_vars, cache_vars>>

NextAssets ==
    \/ generate_assets_call
    \/ \E i \in 1..Len(jobs) : sjinn_create_task(i)
    \/ \E i \in 1..Len(jobs) : sjinn_poll(i)
    \/ \E i \in 1..Len(jobs) : sjinn_download(i)
    \/ \E i \in 1..Len(jobs) : openai_images_generations(i)
    \/ \E i \in 1..Len(jobs) : openai_chat_completions(i)
    \/ \E i \in 1..Len(jobs) : gemini_generate_image_bytes(i)
    \/ \E i \in 1..Len(jobs) : process_image_with_smart_key(i)
    \/ generate_assets_collect

SpecAssets == InitAssets /\ [][NextAssets]_vars

(***************************************************************************)
(* Properties of the retry protocol.                                       *)
(***************************************************************************)
Terminal == pc \in {"done", "failed"}

\* Text that holds no JSON value at all.
Malformed(entry) == entry.kind = "text" /\ entry.wrap = "garbage"

AllMalformed == \A i \in 1..Len(log) : Malformed(log[i])

\* C1: in every generator, while every answer of the provider is malformed
\* JSON, no third call is made and no result is returned, and the chain has
\* ended only after exactly 2 calls, in a terminal invalid-JSON error.
C1_MalformedTwiceThenError ==
    AllMalformed =>
        /\ calls <= 2
        /\ pc # "done"
        /\ pc = "failed" => /\ calls = 2
                            /\ Len(log) = 2
                            /\ err.reason = "invalid json"
                            /\ err.class \in {"TopicExtractionFailedError",
                                              "ImagePromptGenerationError",
                                              "LessonScriptGenerationError"}

C1_Witness ==
    /\ gen = "librarian"
    /\ provider = "openaiCompatible"
    /\ pc = "failed"
    /\ calls = 2
    /\ Len(log) = 2
    /\ AllMalformed

\* C2: the retry counter is always 0 or 1, at most 2 provider calls are
\* ever issued, and every call chain ends in a result or a terminal error.
C2_BoundedRetryAndTermination ==
    /\ [](retry_count \in {0, 1} /\ calls <= 2 /\ calls <= retry_count + 1)
    /\ <>Terminal

\* A chain whose first answer was a schema violation and whose second answer
\* had too few prompts.
C2_Witness ==
    /\ gen = "steering"
    /\ pc = "failed"
    /\ retry_count = 1
    /\ calls = 2
    /\ err.class = "InvalidImagePromptCountError"
    /\ log[1].kind = "text"
    /\ log[1].wrap = "plain"

\* C3: an empty first answer is retried: a chain whose first answer was empty
\* fails only after a second call.
C3_EmptyResponseRetried ==
    (pc = "failed" /\ Len(log) >= 1 /\ log[1].kind = "empty") => calls = 2

\* The cross-referential rules of a manifest, stated on the data.
EventCheckpointsInVoiceover(scenes) ==
    \A i \in 1..Len(scenes) : \A j \in 1..Len(scenes[i].events) :
        \E k \in 1..Len(scenes[i].voiceover) :
            scenes[i].voiceover[k] = scenes[i].events[j].checkpoint_id

SomeInteraction(scenes) == \E i \in 1..Len(scenes) : scenes[i].interaction # "none"

EventAssetsSupplied(scenes, ids) ==
    \A i \in 1..Len(scenes) : \A j \in 1..Len(scenes[i].events) :
        \E k \in 1..Len(ids) : ids[k] = scenes[i].events[j].asset_id

\* The answer just handled parsed to a well-typed manifest object.
HandledManifest ==
    /\ gen = "director"
    /\ handled.kind = "text"
    /\ validation.ran
    /\ handled.value.well_typed

SchemaValidButCrossRefFails ==
    /\ HandledManifest
    /\ handled.value.lesson_duration_sec > 0
    /\ handled.value.lesson_duration_sec <= 180 * Centi
    /\ Len(handled.value.scenes) \in 1..5
    /\ \/ ~ EventCheckpointsInVoiceover(handled.value.scenes)
       \/ ~ SomeInteraction(handled.value.scenes)
       \/ ~ EventAssetsSupplied(handled.value.scenes, asset_ids)

\* C4: a first manifest that is schema-valid but fails a cross-referential
\* check never ends the chain: the call is re-issued first.
C4_CrossRefFailureRetried ==
    (retry_count = 0 /\ calls = 1 /\ SchemaValidButCrossRefFails) => pc = "calling"

\* C5: a timeout or network error without auth words on the first attempt is
\* retried: the chain fails only after a second call.
C5_TransientErrorRetried ==
    ( /\ pc = "failed"
      /\ Len(log) >= 1
      /\ log[1].kind = "error"
      /\ log[1].cause \in {"timeout", "network"}
      /\ log[1].signals = {} ) => calls = 2

IsAuthError(entry) == entry.kind = "error" /\ entry.signals # {}

\* C6: a provider error whose text mentions an API key, authentication or 401
\* is the last answer of its chain: no call follows it, at either retry
\* count, and the chain has failed with InvalidAPIKeyError.
C6_AuthErrorNotRetried ==
    \A i \in 1..Len(log) :
        IsAuthError(log[i]) =>
            /\ i = Len(log)
            /\ calls = i
            /\ pc = "failed"
            /\ err.class = "InvalidAPIKeyError"
            /\ err.code = "INVALID_API_KEY"

C6_Witness ==
    /\ gen = "director"
    /\ retry_count = 1
    /\ Len(log) = 2
    /\ IsAuthError(log[2])
    /\ log[2].signals = {"401"}
    /\ pc = "failed"

DurationErrors ==
    {"less_than_equal", "Lesson duration must be positive",
     "Lesson duration must not exceed 180 seconds"}

DurationAccepted == validation.errors \cap DurationErrors = {}

ScenesAccepted == validation.errors \ DurationErrors = {}

C9_SceneCountAcceptedIffInRange ==
    HandledManifest =>
        LET scenes == handled.value.scenes IN
        /\ Len(scenes) = 0 => ~ ScenesAccepted
        /\ Len(scenes) > 5 => ~ ScenesAccepted
        /\ (Len(scenes) \in 1..5 /\ EventCheckpointsInVoiceover(scenes) /\ SomeInteraction(scenes))
               => ScenesAccepted

C9_Witness ==
    /\ HandledManifest
    /\ Len(handled.value.scenes) = 6
    /\ EventCheckpointsInVoiceover(handled.value.scenes)
    /\ SomeInteraction(handled.value.scenes)
    /\ ~ ScenesAccepted

\* Some voiceover checkpoint of some scene is referenced by no event of it.
UnreferencedVoiceoverCheckpoint(scenes) ==
    \E i \in 1..Len(scenes) : \E k \in 1..Len(scenes[i].voiceover) :
        \A j \in 1..Len(scenes[i].events) :
            scenes[i].events[j].checkpoint_id # scenes[i].voiceover[k]

\* Scene i has an event whose checkpoint is in the voiceover of another scene
\* but not in its own.
CrossSceneCheckpoint(scenes) ==
    \E i \in 1..Len(scenes) : \E j \in 1..Len(scenes[i].events) :
        /\ \A k \in 1..Len(scenes[i].voiceover) :
               scenes[i].voiceover[k] # scenes[i].events[j].checkpoint_id
        /\ \E i2 \in 1..Len(scenes) : \E k \in 1..Len(scenes[i2].voiceover) :
               i2 # i /\ scenes[i2].voiceover[k] = scenes[i].events[j].checkpoint_id

\* C10: a manifest with an event whose checkpoint is not in its own scene's
\* voiceover is rejected, also when another scene's voiceover has it; the
\* checkpoint error is raised for nothing else, so a voiceover checkpoint
\* without an event never causes rejection.
C10_CheckpointRuleAsymmetricPerScene ==
    HandledManifest =>
        LET scenes == handled.value.scenes IN
        /\ ~ EventCheckpointsInVoiceover(scenes) => ~ ScenesAccepted
        /\ "Checkpoint mismatch" \in validation.errors => ~ EventCheckpointsInVoiceover(scenes)
        /\ (Len(scenes) \in 1..5 /\ EventCheckpointsInVoiceover(scenes) /\ SomeInteraction(scenes))
               => ScenesAccepted

C10_Witness ==
    /\ HandledManifest
    /\ CrossSceneCheckpoint(handled.value.scenes)
    /\ Len(handled.value.scenes) \in 1..5
    /\ "Checkpoint mismatch" \in validation.errors

\* A manifest with a voiceover checkpoint no event references is returned.
C10_AcceptedWitness ==
    /\ HandledManifest
    /\ UnreferencedVoiceoverCheckpoint(handled.value.scenes)
    /\ pc = "done"

\* C11: the interaction rule rejects a manifest exactly when every scene's
\* interaction type is none: the error "Lesson must contain an interaction"
\* is raised only for such a manifest, it is raised for every such manifest
\* that passes the count and checkpoint rules, and one scene anywhere with a
\* quiz, pauseAndThink or labelPrediction interaction is enough to pass.
C11_InteractionRule ==
    HandledManifest =>
        LET scenes == handled.value.scenes IN
        /\ "Lesson must contain an interaction" \in validation.errors
               => \A i \in 1..Len(scenes) : scenes[i].interaction = "none"
        /\ (\A i \in 1..Len(scenes) : scenes[i].interaction = "none") => ~ ScenesAccepted
        /\ (/\ Len(scenes) \in 1..5
            /\ EventCheckpointsInVoiceover(scenes)
            /\ \E i \in 1..Len(scenes) :
                   scenes[i].interaction \in {"quiz", "pauseAndThink", "labelPrediction"})
               => ScenesAccepted

\* A returned manifest whose only interaction is in its last scene.
C11_Witness ==
    /\ HandledManifest
    /\ pc = "done"
    /\ Len(handled.value.scenes) >= 3
    /\ \A i \in 1..(Len(handled.value.scenes) - 1) : handled.value.scenes[i].interaction = "none"
    /\ handled.value.scenes[Len(handled.value.scenes)].interaction = "labelPrediction"

\* C12: a well-typed manifest with lessonDurationSec above 180 makes
\* generate_lesson_manifest fail with InvalidLessonDurationError, and one
\* with more than 5 scenes (and a duration in range) with
\* InvalidSceneCountError.
C12_NamedValidationErrors ==
    (HandledManifest /\ pc = "failed") =>
        /\ handled.value.lesson_duration_sec > 180 * Centi
               => err.class = "InvalidLessonDurationError"
        /\ (/\ handled.value.lesson_duration_sec > 0
            /\ handled.value.lesson_duration_sec <= 180 * Centi
            /\ Len(handled.value.scenes) > 5)
               => err.class = "InvalidSceneCountError"

(***************************************************************************)
(* Properties of the image-prompt planner.                                 *)
(***************************************************************************)
\* The planner parsed the answer in hand and ran the schema on it.
HandledImages ==
    /\ gen = "steering"
    /\ handled.kind = "text"
    /\ validation.ran
    /\ handled.value.well_typed

\* C13: when the provider's answer holds more than 5 image prompts and the
\* planner returns, its result holds exactly 5 prompts, which are the first
\* 5 prompts of the answer in their original order.
C13_TruncatedToFirstFive ==
    (HandledImages /\ pc = "done" /\ Len(handled.value.images) > 5) =>
        /\ Len(result.images) = 5
        /\ \A i \in 1..5 : /\ result.images[i] = handled.value.images[i]
                            /\ result.images[i].image_prompt = i

C13_Witness ==
    /\ HandledImages
    /\ pc = "done"
    /\ Len(handled.value.images) = 7
    /\ Len(result.images) = 5
    /\ ~ handled.value.images[6].has_prefix

\* The answer in hand is a JSON object with fewer than 5 image prompts.
FewerThanFive ==
    /\ gen = "steering"
    /\ handled.kind = "text"
    /\ handled.wrap = "plain"
    /\ handled.value.shape = "object"
    /\ handled.value.well_typed
    /\ Len(handled.value.images) < 5

\* C14: an answer with 0 to 4 image prompts is retried once; when the
\* answer to the retry also has 0 to 4 prompts the planner ends in
\* InvalidImagePromptCountError; a returned result has exactly 5 prompts,
\* each of them a prompt of the answer it was made from.
C14_FewerThanFiveRetriedThenWrongCount ==
    /\ (FewerThanFive /\ Len(log) = 1) => (pc = "calling" /\ retry_count = 1)
    /\ (FewerThanFive /\ Len(log) = 2 /\ log[1].kind = "text" /\ log[1].wrap = "plain"
            /\ log[1].images < 5)
           => (pc = "failed" /\ err.class = "InvalidImagePromptCountError")
    /\ (gen = "steering" /\ pc = "done") =>
           /\ Len(result.images) = 5
           /\ \A i \in 1..5 : \E j \in 1..Len(handled.value.images) :
                  result.images[i] = handled.value.images[j]

Pending == poll_response.kind = "payload" /\ poll_response.status = 0

PollTerminated == poll_pc \in {"returned", "raised"}

\* C19: the loop ends; it goes on sleeping only on a pending answer that
\* came before the deadline (120 s after entry); a pending answer at or
\* after the deadline ends it in the timeout error; a timeout is raised only
\* after at least one poll; the loop never returns an empty output_urls.
C19_PendingEndsInTimeout ==
    /\ [](poll_pc = "sleeping" => (Pending /\ now < deadline))
    /\ []((PollTerminated /\ Pending) =>
            /\ poll_pc = "raised"
            /\ poll_out.cause = "timeout"
            /\ now >= deadline)
    /\ []((poll_pc = "raised" /\ poll_out.cause = "timeout") =>
            /\ poll_count >= 1
            /\ Pending
            /\ now >= 120)
    /\ [](poll_pc = "returned" => Len(poll_out.output_urls) >= 1)
    /\ <>PollTerminated

\* The job was pending for 61 polls, 2 s apart.
C19_Witness ==
    /\ poll_pc = "raised"
    /\ poll_out.cause = "timeout"
    /\ poll_count = 61
    /\ now = 120

(***************************************************************************)
(* Properties of the asset pipeline.                                       *)
(***************************************************************************)
\* C15: when generate_assets returns, it returns one image per prompt and
\* its i-th image (asset_i, counting from 0) is the processed image of
\* prompt i, in whatever order the jobs ended.
C15_OrderPreserving ==
    ga_pc = "returned" =>
        /\ Len(ga_out.value) = Len(image_prompts)
        /\ \A k \in 1..Len(image_prompts) :
               /\ ga_out.value[k] = TransparentPng(image_prompts[k])
               /\ ga_out.value[k].of = k - 1

\* All jobs succeeded and the last job ended first.
C15_Witness ==
    /\ ga_pc = "returned"
    /\ Len(image_prompts) >= 2
    /\ finished[1] = Len(image_prompts)
    /\ ga_out.value[1].of = 0

\* Some job has failed and another one has not ended.
FailedWhileSiblingsInFlight ==
    /\ \E i \in 1..Len(jobs) : jobs[i].stage = "Failed"
    /\ \E i \in 1..Len(jobs) : jobs[i].stage \notin {"Processed", "Failed"}

\* C16: when a job has failed while siblings are in flight, generate_assets
\* can report the failure at once, without the siblings having ended.
C16_ShortCircuit ==
    (ga_pc = "gathering" /\ FailedWhileSiblingsInFlight) => ENABLED generate_assets_collect

\* C17: generate_assets returns only when no job has failed; once a job has
\* failed the call can only end by raising, and what it raises carries no
\* image, however many jobs succeeded and in whatever order they ended.
C17_NoPartialResult ==
    /\ ga_pc = "returned" => \A i \in 1..Len(jobs) : jobs[i].stage = "Processed"
    /\ (ga_pc \in {"returned", "raised"} /\ \E i \in 1..Len(jobs) : jobs[i].stage = "Failed") =>
           /\ ga_pc = "raised"
           /\ ga_out.act = "raise"
           /\ "value" \notin DOMAIN ga_out
           /\ ga_out.error.class \in {"InvalidAPIKeyError", "ImageGenerationError",
                                      "ImageProcessingError"}

\* The first job succeeded first, a later job failed after it.
C17_Witness ==
    /\ ga_pc = "raised"
    /\ Len(jobs) >= 2
    /\ jobs[1].stage = "Processed"
    /\ finished[1] = 1
    /\ jobs[2].stage = "Failed"
    /\ ga_out.index = 1

Rank(stage) ==
    CASE stage = "Submitted" -> 1
      [] stage = "Polling" -> 2
      [] stage = "Completed" -> 3
      [] stage = "Downloaded" -> 4
      [] stage = "Processed" -> 5
      [] stage = "Failed" -> 6

\* C20: the stages a job has entered are in the order Submitted, Polling,
\* Completed, Downloaded, Processed, with Failed only as the last one; a
\* SJinn job is downloaded only after a poll that reported completion with
\* an output location; keying runs only on bytes obtained; a gemini or
\* openaiCompatible job never polls.
C20_StageOrder ==
    \A i \in 1..Len(jobs) :
        LET h == jobs[i].hist IN
        /\ \A a \in 1..Len(h) : \A b \in 1..Len(h) : a < b => Rank(h[a]) < Rank(h[b])
        /\ Len(h) > 0 => h[Len(h)] = jobs[i].stage
        /\ ("Downloaded" \in Range(h) /\ ai_config.provider = "sjinn") =>
               /\ {"Submitted", "Polling", "Completed"} \subseteq Range(h)
               /\ jobs[i].polls >= 1
               /\ Len(jobs[i].output_urls) >= 1
        /\ "Completed" \in Range(h) => Len(jobs[i].output_urls) >= 1
        /\ "Processed" \in Range(h) => "Downloaded" \in Range(h)
        /\ jobs[i].stage = "Downloaded" => jobs[i].image.kind = "bytes"
        /\ jobs[i].stage = "Processed" => jobs[i].image.kind = "png"
        /\ ai_config.provider \in {"gemini", "openaiCompatible"} =>
               /\ jobs[i].polls = 0
               /\ Range(h) \cap {"Submitted", "Polling", "Completed"} = {}

\* A SJinn job that went through every stage and needed two polls.
C20_Witness ==
    /\ ai_config.provider = "sjinn"
    /\ Len(jobs) >= 1
    /\ jobs[1].hist = <<"Submitted", "Polling", "Completed", "Downloaded", "Processed">>
    /\ jobs[1].polls = 2

\* The stage at which a failed job failed, for the three stages C21 names.
FailedAt(i) ==
    IF jobs[i].stage # "Failed" THEN "none"
    ELSE IF jobs[i].err.cause = "create_task" THEN "submit"
    ELSE IF jobs[i].err.cause = "timeout" THEN "timeout"
    ELSE IF jobs[i].err.cause = "decode" THEN "processing"
    ELSE "other"

\* C21: a failed submission, a polling timeout and a decoding failure carry
\* pairwise different machine-readable error codes: two jobs that failed at
\* two different ones of these stages never have the same code.
C21_ErrorsTypedByStage ==
    \A i \in 1..Len(jobs) : \A j \in 1..Len(jobs) :
        (/\ FailedAt(i) \in {"submit", "timeout", "processing"}
         /\ FailedAt(j) \in {"submit", "timeout", "processing"}
         /\ FailedAt(i) # FailedAt(j))
            => jobs[i].err.code # jobs[j].err.code

MaxPixels == 3

Hues == {0, 9, 10, 25, 26, 79, 80, 90, 100, 101, 179}
Saturations == {0, 30, 31, 49, 50, 255}
Brightnesses == {0, 49, 50, 199, 200, 255}

\* The triples cvtColor produces: black and grey pixels have hue 0.
HsvPixels ==
    {p \in Hues \X Saturations \X Brightnesses :
        /\ p[3] = 0 => p[2] = 0
        /\ p[2] = 0 => p[1] = 0}

WhitePixel == <<0, 0, 255>>

\* A white image with one arbitrary pixel.
HsvImages ==
    {[k \in 1..n |-> IF k = pos THEN p ELSE WhitePixel] :
        n \in 1..MaxPixels, pos \in 1..MaxPixels, p \in HsvPixels}

inRange(hsv, lower, upper) ==
    [k \in DOMAIN hsv |->
        IF \A c \in 1..3 : lower[c] <= hsv[k][c] /\ hsv[k][c] <= upper[c]
        THEN 255 ELSE 0]

bitwise_or(a, b) == [k \in DOMAIN a |-> IF a[k] = 255 \/ b[k] = 255 THEN 255 ELSE 0]
bitwise_and(a, b) == [k \in DOMAIN a |-> IF a[k] = 255 /\ b[k] = 255 THEN 255 ELSE 0]
bitwise_not(a) == [k \in DOMAIN a |-> 255 - a[k]]

white_lower_201 == <<0, 0, 201>>
white_lower == <<0, 0, 200>>
white_upper == <<180, 30, 255>>
white_mask(hsv) == inRange(hsv, white_lower, white_upper)

teal_lower == <<80, 50, 50>>
teal_upper == <<100, 255, 255>>
teal_mask(hsv) == inRange(hsv, teal_lower, teal_upper)

orange_lower == <<10, 50, 50>>
orange_upper == <<25, 255, 255>>
orange_mask(hsv) == inRange(hsv, orange_lower, orange_upper)

accent_mask(hsv) == bitwise_or(teal_mask(hsv), orange_mask(hsv))
background_mask(hsv) == bitwise_and(white_mask(hsv), bitwise_not(accent_mask(hsv)))
foreground_mask(hsv) == bitwise_not(background_mask(hsv))

InitKey ==
    /\ key_image \in HsvImages \cup {<<>>}
    /\ key_alpha = <<>>
    /\ key_pc = "start"
    /\ TextAtRest
    /\ PollAtRest
    /\ AssetsAtRest
    /\ LessonAtRest
    /\ ResAtRest
    /\ JsonAtRest
    /\ PipeAtRest
    /\ CacheAtRest

\* An image that imdecode rejects (here the empty one) raises
\* ImageProcessingError; any other gets foreground_mask as its alpha channel.
process_image_with_smart_key_call ==
    /\ key_pc = "start"
    /\ IF key_image = <<>>
       THEN /\ key_pc' = "raised"
            /\ key_alpha' = <<>>
       ELSE /\ key_pc' = "keyed"
            /\ key_alpha' = foreground_mask(key_image)
    /\ UNCHANGED key_image
    /\ UNCHANGED <<text_vars, poll_vars, asset_vars, lesson_vars, res_vars, json_vars, pipe_vars, cache_vars>>

NextKey == process_image_with_smart_key_call

SpecKey == InitKey /\ [][NextKey]_vars

\* The bands of the classification, in the words of the documentation.
InWhiteBand(p) == p[2] <= 30 /\ p[3] >= 200
InCoolHue(p) == 80 <= p[1] /\ p[1] <= 100
InWarmHue(p) == 10 <= p[1] /\ p[1] <= 25
InAccentBand(p) == (InCoolHue(p) \/ InWarmHue(p)) /\ p[2] >= 50 /\ p[3] >= 50

C24_AccentHueNeverBackground ==
    key_pc = "keyed" =>
        \A k \in 1..Len(key_image) :
            (InCoolHue(key_image[k]) \/ InWarmHue(key_image[k])) => key_alpha[k] = 255


(***************************************************************************)
(* The audio reconciliation of the two lesson endpoints: what follows      *)
(* tts_service.synthesize_narration in POST /generate (generate_assets.py) *)
(* and in POST /generate-lesson (generate_lesson.py), with the exception   *)
(* handlers of each.  Durations are in tenths of a second.                 *)
(***************************************************************************)
Tenth == 10
MaxAudioSec == 200

\* lessonDurationSec of a manifest the validator accepted (0 < d <= 180).
ManifestSeconds == {5, 50, 100, MaxLessonDurationSec}

Endpoints == {"generate", "generate-lesson"}

\* How get_audio_duration ends for non-empty audio: with audio.info.length,
\* without mutagen, or with an exception of the MP3 parser.
Probes == {"length", "ImportError", "Exception"}

AudioGenerationError == [class |-> "AudioGenerationError", code |-> "AUDIO_GENERATION_ERROR"]

\* TTSService.get_audio_duration: the seconds returned or the error raised.
get_audio_duration(bytes, how, length) ==
    IF ~bytes THEN [act |-> "return", value |-> 0]
    ELSE IF how = "length" THEN [act |-> "return", value |-> length]
    ELSE IF how = "ImportError" THEN [act |-> "return", value |-> 0]
    ELSE [act |-> "raise", exc |-> AudioGenerationError]

HTTPException(status_code, code, details) ==
    [kind |-> "HTTPException", status_code |-> status_code, code |-> code, details |-> details]

LessonResponse(warned) == [kind |-> "response", status_code |-> 200, warned |-> warned]

MismatchDetails(audio, manifest, tolerance) ==
    {<<"audioDuration", audio>>, <<"manifestDuration", manifest>>, <<"tolerance", tolerance>>}

\* The tolerance of POST /generate: manifest_duration * 0.1.
tolerance_20_percent(manifest) == manifest \div 5
tolerance(manifest) == manifest \div 10

\* The except clauses of POST /generate.  An HTTPException raised inside the
\* try block is an Exception and reaches the last clause.
generate_handlers(exc) ==
    IF exc.class = "InvalidAPIKeyError" THEN HTTPException(401, exc.code, {})
    ELSE IF exc.class \in {"ImageGenerationError", "LessonGenerationError",
                           "ElevenLabsAPIError", "AudioGenerationError"}
         THEN HTTPException(500, exc.code, {})
         ELSE HTTPException(500, "INTERNAL_ERROR", {})

\* The except clauses of POST /generate-lesson.
generate_lesson_handlers(exc) ==
    IF exc.class = "InvalidAPIKeyError" THEN HTTPException(401, exc.code, {})
    ELSE IF exc.class \in {"InvalidLessonDurationError", "InvalidSceneCountError"}
         THEN HTTPException(422, exc.code, {})
    ELSE IF exc.class \in {"LessonScriptGenerationError", "ElevenLabsAPIError",
                           "AudioGenerationError"}
         THEN HTTPException(500, exc.code, {})
         ELSE HTTPException(500, "INTERNAL_ERROR", {})

\* POST /generate from the audio check to the answer.
generate_reconcile(bytes, how, length, manifest) ==
    IF ~bytes THEN LessonResponse(FALSE)
    ELSE LET measured == get_audio_duration(bytes, how, length) IN
         IF measured.act = "raise" THEN generate_handlers(measured.exc)
         ELSE IF measured.value > manifest + tolerance(manifest)
              THEN generate_handlers(
                       [class |-> "HTTPException", code |-> "AUDIO_DURATION_MISMATCH",
                        details |-> MismatchDetails(measured.value, manifest,
                                                    tolerance(manifest))])
              ELSE LessonResponse(FALSE)

Abs(x) == IF x < 0 THEN -x ELSE x

\* POST /generate-lesson from the audio check to the answer.
generate_lesson_reconcile(bytes, how, length, manifest) ==
    IF ~bytes THEN LessonResponse(FALSE)
    ELSE LET measured == get_audio_duration(bytes, how, length) IN
         IF measured.act = "raise" THEN generate_lesson_handlers(measured.exc)
         ELSE LessonResponse(manifest > 0
                             /\ Abs(measured.value - manifest) * 100 > 10 * manifest)

\* synthesize_narration has returned: empty audio without an ElevenLabs key,
\* otherwise audio of some length.
InitLesson ==
    /\ endpoint \in Endpoints
    /\ audio_bytes \in BOOLEAN
    /\ probe \in IF audio_bytes THEN Probes ELSE {"none"}
    /\ audio_duration \in IF audio_bytes /\ probe = "length"
                          THEN 0..(MaxAudioSec * Tenth) ELSE {0}
    /\ manifest_duration \in {sec * Tenth : sec \in ManifestSeconds}
    /\ lesson_pc = "tts_done"
    /\ lesson_out = None
    /\ TextAtRest
    /\ PollAtRest
    /\ AssetsAtRest
    /\ KeyAtRest
    /\ ResAtRest
    /\ JsonAtRest
    /\ PipeAtRest
    /\ CacheAtRest

generate_assets_generate_lesson ==
    /\ lesson_pc = "tts_done"
    /\ endpoint = "generate"
    /\ lesson_out' = generate_reconcile(audio_bytes, probe, audio_duration, manifest_duration)
    /\ lesson_pc' = "answered"
    /\ UNCHANGED <<endpoint, audio_bytes, probe, audio_duration, manifest_duration>>
    /\ UNCHANGED <<text_vars, poll_vars, asset_vars, key_vars, res_vars, json_vars, pipe_vars, cache_vars>>

generate_lesson_generate_lesson ==
    /\ lesson_pc = "tts_done"
    /\ endpoint = "generate-lesson"
    /\ lesson_out' = generate_lesson_reconcile(audio_bytes, probe, audio_duration,
                                               manifest_duration)
    /\ lesson_pc' = "answered"
    /\ UNCHANGED <<endpoint, audio_bytes, probe, audio_duration, manifest_duration>>
    /\ UNCHANGED <<text_vars, poll_vars, asset_vars, key_vars, res_vars, json_vars, pipe_vars, cache_vars>>

NextLesson ==
    \/ generate_assets_generate_lesson
    \/ generate_lesson_generate_lesson

SpecLesson == InitLesson /\ [][NextLesson]_vars

\* The audio was measured: non-empty and read by the MP3 parser.
Measured == audio_bytes /\ probe = "length"

Rejected == lesson_out.kind = "HTTPException"

C25_WitnessFail ==
    /\ lesson_pc = "answered"
    /\ endpoint = "generate"
    /\ Measured
    /\ manifest_duration = 100 * Tenth
    /\ audio_duration = 111 * Tenth
    /\ Rejected

\* C26: on every lesson endpoint, measured audio longer than the manifest
\* duration plus 10 percent is answered with an error, never with a lesson.
C26_TooLongRejectedEverywhere ==
    (lesson_pc = "answered" /\ Measured /\ 10 * audio_duration > 11 * manifest_duration)
        => Rejected

AIProvider == {"gemini", "openaiCompatible", "sjinn"}

Services == {"librarian", "image_steering", "ai_director", "asset_factory"}

RequestConfigs ==
    [provider : AIProvider, gemini_api_key : {"absent", "request-key"},
     openai_compatible : BOOLEAN, sjinn : BOOLEAN]

SettingsKeys == {"", "default-key"}

\* AIProviderConfig.resolve_gemini_api_key.
resolve_gemini_api_key(cfg, default_key) ==
    IF cfg.gemini_api_key # "absent" THEN cfg.gemini_api_key ELSE default_key

Call(backend, api_key) == [act |-> "call", backend |-> backend, api_key |-> api_key]

\* The Gemini branch of LibrarianService.extract_topics and of
\* AIDirectorService.generate_lesson_manifest: _get_client() comes first and
\* needs the process-wide key; the resolved key replaces the client after it.
text_gemini_branch(cfg, default_key) ==
    IF default_key = "" THEN InvalidAPIKeyError
    ELSE Call("gemini", resolve_gemini_api_key(cfg, default_key))

\* LibrarianService.extract_topics up to the provider call.
librarian_backend(cfg, default_key) ==
    IF cfg.provider = "openaiCompatible"
    THEN IF ~cfg.openai_compatible
         THEN TopicExtractionFailedError("openaiCompatible config is required")
         ELSE Call("openaiCompatible", "openai-key")
    ELSE text_gemini_branch(cfg, default_key)

\* AIDirectorService.generate_lesson_manifest up to the provider call.
ai_director_backend(cfg, default_key) ==
    IF cfg.provider = "openaiCompatible"
    THEN IF ~cfg.openai_compatible
         THEN LessonScriptGenerationError("openaiCompatible config is required")
         ELSE Call("openaiCompatible", "openai-key")
    ELSE text_gemini_branch(cfg, default_key)

\* The routers call ImageSteeringService.generate_image_prompts with the
\* keyword ai_config, which the method does not take: the call raises
\* TypeError before the method body runs.
image_steering_backend(cfg, default_key) ==
    Raise("TypeError", "INTERNAL_ERROR", "unexpected keyword argument 'ai_config'")

\* AssetFactoryService._generate_image_bytes up to the provider call, with
\* its closing except clauses.
asset_factory_backend(cfg, default_key) ==
    IF cfg.provider = "sjinn"
    THEN IF ~cfg.sjinn
         THEN [act |-> "raise"] @@
              image_bytes_error(ImageGenerationError("IMAGE_PROVIDER_CONFIG_MISSING", "config"))
         ELSE Call("sjinn", "sjinn-key")
    ELSE IF cfg.provider = "openaiCompatible"
    THEN IF ~cfg.openai_compatible
         THEN [act |-> "raise"] @@
              image_bytes_error(ImageGenerationError("IMAGE_PROVIDER_CONFIG_MISSING", "config"))
         ELSE Call("openaiCompatible", "openai-key")
    ELSE LET api_key == resolve_gemini_api_key(cfg, default_key) IN
         IF api_key = ""
         THEN [act |-> "raise"] @@
              image_bytes_error([class |-> "InvalidAPIKeyError", cause |-> "config",
                                 signals |-> {}])
         ELSE Call("gemini", api_key)

InitRes ==
    /\ svc \in Services
    /\ req_config \in RequestConfigs
    /\ settings_key \in SettingsKeys
    /\ res_pc = "start"
    /\ res_out = None
    /\ TextAtRest
    /\ PollAtRest
    /\ AssetsAtRest
    /\ KeyAtRest
    /\ LessonAtRest
    /\ JsonAtRest
    /\ PipeAtRest
    /\ CacheAtRest

Select(service, out) ==
    /\ res_pc = "start"
    /\ svc = service
    /\ res_out' = out
    /\ res_pc' = "done"
    /\ UNCHANGED <<svc, req_config, settings_key>>
    /\ UNCHANGED <<text_vars, poll_vars, asset_vars, key_vars, lesson_vars, json_vars, pipe_vars, cache_vars>>

select_librarian == Select("librarian", librarian_backend(req_config, settings_key))
select_image_steering == Select("image_steering", image_steering_backend(req_config, settings_key))
select_ai_director == Select("ai_director", ai_director_backend(req_config, settings_key))
select_asset_factory == Select("asset_factory", asset_factory_backend(req_config, settings_key))

NextRes ==
    \/ select_librarian
    \/ select_image_steering
    \/ select_ai_director
    \/ select_asset_factory

SpecRes == InitRes /\ [][NextRes]_vars

\* C28: in every stage a provider call goes to the variant named by the
\* request's provider tag.
C28_BackendIsTaggedVariant ==
    (res_pc = "done" /\ res_out.act = "call") => res_out.backend = req_config.provider

\* C29: a gemini-tagged request proceeds with its own key when it supplies
\* one, whatever the process-wide key, and with the process-wide key
\* otherwise.
C29_ResolvedKeyUsed ==
    (res_pc = "done" /\ req_config.provider = "gemini") =>
        /\ req_config.gemini_api_key # "absent" =>
               res_out = Call("gemini", req_config.gemini_api_key)
        /\ (req_config.gemini_api_key = "absent" /\ settings_key # "") =>
               res_out = Call("gemini", settings_key)


\* C30: a job of a REST variant whose configuration block is missing fails
\* without any provider request, and its error keeps the configuration code
\* IMAGE_PROVIDER_CONFIG_MISSING.
C30_ConfigErrorKeepsKind ==
    (ai_config.provider \in {"openaiCompatible", "sjinn"} /\ ~ai_config.configured) =>
        \A i \in 1..Len(jobs) :
            jobs[i].stage = "Failed" =>
                /\ jobs[i].requests = 0
                /\ jobs[i].err.code = "IMAGE_PROVIDER_CONFIG_MISSING"


(***************************************************************************)
(* json_utils.extract_json on the characters of a response.  A text is a   *)
(* sequence of characters, each written as a string; NL is the line feed,  *)
(* QUOTE the double quote, TICK the backtick and LS the character U+2028,  *)
(* which str.strip and str.splitlines treat as white space and line break  *)
(* and which JSON allows unescaped inside a string.  json.loads is         *)
(* modelled for objects, arrays, strings without escapes and unsigned      *)
(* integers.                                                               *)
(***************************************************************************)
MaxShort == 4

NL == "LF"
QUOTE == "QUOTE"
LS == "U+2028"
TICK == "TICK"

Alphabet == {"{", "}", "[", "]", ":", ",", QUOTE, "a", "1", " ", NL, TICK, LS}

Digits == {"1"}
JsonWhitespace == {" ", NL}
ControlChars == {NL}
PyWhitespace == {" ", NL, LS}
LineBreaks == {NL, LS}

Fence == <<TICK, TICK, TICK>>

\* Every text of up to MaxShort characters.
ShortTexts == UNION {[1..n -> Alphabet] : n \in 0..MaxShort}

\* Valid JSON objects, as a provider writes them.
InnerObjects ==
    { <<"{", "}">>,
      <<"{", QUOTE, "a", QUOTE, ":", "1", "}">>,
      <<"{", QUOTE, "a", QUOTE, ":", "[", "1", ",", QUOTE, "a", QUOTE, "]", "}">>,
      <<"{", QUOTE, "a", QUOTE, ":", NL, " ", QUOTE, "a", QUOTE, NL, "}">>,
      <<"{", QUOTE, "a", QUOTE, ":", QUOTE, "{", QUOTE, "}">>,
      <<"{", QUOTE, "a", QUOTE, ":", QUOTE, TICK, TICK, TICK, QUOTE, "}">>,
      <<"{", QUOTE, "a", QUOTE, ":", QUOTE, "a", LS, "a", QUOTE, "}">>,
      <<"{", QUOTE, "a", QUOTE, ":", "{", "}", ",", QUOTE, "a", QUOTE, ":", "1", "}">> }

Pads == {<<>>, <<" ">>, <<NL>>}
LanguageTags == {<<>>, <<"a">>}

\* A Markdown code fence around inner: opening fence line, inner, closing fence.
FencedText(lead, tag, inner, sep, trail) ==
    lead \o Fence \o tag \o <<NL>> \o inner \o sep \o Fence \o trail

\* inner between two words of prose.
ProseText(inner, trail) == <<"a", " ">> \o inner \o trail

\* ---- str methods --------------------------------------------------------
MinOf(S) == CHOOSE x \in S : \A y \in S : x <= y
MaxOf(S) == CHOOSE x \in S : \A y \in S : y <= x

lstrip(s) ==
    LET keep == {i \in 1..Len(s) : s[i] \notin PyWhitespace} IN
    IF keep = {} THEN <<>> ELSE SubSeq(s, MinOf(keep), Len(s))

rstrip(s) ==
    LET keep == {i \in 1..Len(s) : s[i] \notin PyWhitespace} IN
    IF keep = {} THEN <<>> ELSE SubSeq(s, 1, MaxOf(keep))

strip(s) == lstrip(rstrip(s))

startswith(s, prefix) == Len(s) >= Len(prefix) /\ SubSeq(s, 1, Len(prefix)) = prefix
endswith(s, suffix) ==
    Len(s) >= Len(suffix) /\ SubSeq(s, Len(s) - Len(suffix) + 1, Len(s)) = suffix

RECURSIVE splitlines(_)
splitlines(s) ==
    LET breaks == {i \in 1..Len(s) : s[i] \in LineBreaks} IN
    IF s = <<>> THEN <<>>
    ELSE IF breaks = {} THEN <<s>>
    ELSE <<SubSeq(s, 1, MinOf(breaks) - 1)>>
         \o splitlines(SubSeq(s, MinOf(breaks) + 1, Len(s)))

RECURSIVE join(_, _)
join(sep, lines) ==
    IF lines = <<>> THEN <<>>
    ELSE IF Len(lines) = 1 THEN lines[1]
    ELSE lines[1] \o sep \o join(sep, Tail(lines))

\* str.find and str.rfind of one character: a 0-based index or -1.
find(s, c) ==
    LET at == {i \in 1..Len(s) : s[i] = c} IN IF at = {} THEN -1 ELSE MinOf(at) - 1
rfind(s, c) ==
    LET at == {i \in 1..Len(s) : s[i] = c} IN IF at = {} THEN -1 ELSE MaxOf(at) - 1

\* ---- json.loads ---------------------------------------------------------
JsonValue(t, s, items) == [t |-> t, s |-> s, items |-> items]

JSONDecodeErrorValue == JsonValue("JSONDecodeError", <<>>, <<>>)

ScanFail == [ok |-> FALSE, val |-> JSONDecodeErrorValue, next |-> 0]
ScanOk(val, next) == [ok |-> TRUE, val |-> val, next |-> next]

CharAt(s, i) == IF i >= 1 /\ i <= Len(s) THEN s[i] ELSE "EOF"

RECURSIVE skip_whitespace(_, _)
skip_whitespace(s, i) ==
    IF CharAt(s, i) \in JsonWhitespace THEN skip_whitespace(s, i + 1) ELSE i

RECURSIVE scan_digits(_, _)
scan_digits(s, i) == IF CharAt(s, i) \in Digits THEN scan_digits(s, i + 1) ELSE i

\* The index of the closing quote, or 0 when the text ends or a control
\* character comes first.
RECURSIVE closing_quote(_, _)
closing_quote(s, i) ==
    IF CharAt(s, i) = QUOTE THEN i
    ELSE IF CharAt(s, i) = "EOF" \/ CharAt(s, i) \in ControlChars THEN 0
    ELSE closing_quote(s, i + 1)

scanstring(s, i) ==
    LET j == closing_quote(s, i + 1) IN
    IF j = 0 THEN ScanFail ELSE ScanOk(JsonValue("str", SubSeq(s, i + 1, j - 1), <<>>), j + 1)

\* dict[key] = value: a repeated key keeps its place and takes the new value.
dict_set(members, key, value) ==
    IF \E k \in 1..Len(members) : members[k].s = key
    THEN [k \in 1..Len(members) |->
            IF members[k].s = key THEN JsonValue("member", key, <<value>>) ELSE members[k]]
    ELSE Append(members, JsonValue("member", key, <<value>>))

RECURSIVE scan_once(_, _)
RECURSIVE JSONArray(_, _, _)
RECURSIVE JSONObject(_, _, _)

scan_once(s, i) ==
    LET c == CharAt(s, i) IN
    IF c = QUOTE THEN scanstring(s, i)
    ELSE IF c = "{"
    THEN LET j == skip_whitespace(s, i + 1) IN
         IF CharAt(s, j) = "}" THEN ScanOk(JsonValue("object", <<>>, <<>>), j + 1)
         ELSE JSONObject(s, j, <<>>)
    ELSE IF c = "["
    THEN LET j == skip_whitespace(s, i + 1) IN
         IF CharAt(s, j) = "]" THEN ScanOk(JsonValue("array", <<>>, <<>>), j + 1)
         ELSE JSONArray(s, j, <<>>)
    ELSE IF c \in Digits
    THEN LET j == scan_digits(s, i) IN ScanOk(JsonValue("number", SubSeq(s, i, j - 1), <<>>), j)
    ELSE ScanFail

JSONArray(s, i, acc) ==
    LET v == scan_once(s, i)
        j == skip_whitespace(s, v.next)
    IN  IF ~v.ok THEN ScanFail
        ELSE IF CharAt(s, j) = "]"
        THEN ScanOk(JsonValue("array", <<>>, Append(acc, v.val)), j + 1)
        ELSE IF CharAt(s, j) = ","
        THEN JSONArray(s, skip_whitespace(s, j + 1), Append(acc, v.val))
        ELSE ScanFail

JSONObject(s, i, acc) ==
    LET key == scanstring(s, i)
        colon == skip_whitespace(s, key.next)
        v == scan_once(s, skip_whitespace(s, colon + 1))
        j == skip_whitespace(s, v.next)
        members == dict_set(acc, key.val.s, v.val)
    IN  IF CharAt(s, i) # QUOTE THEN ScanFail
        ELSE IF ~key.ok THEN ScanFail
        ELSE IF CharAt(s, colon) # ":" THEN ScanFail
        ELSE IF ~v.ok THEN ScanFail
        ELSE IF CharAt(s, j) = "}" THEN ScanOk(JsonValue("object", <<>>, members), j + 1)
        ELSE IF CharAt(s, j) = ","
        THEN JSONObject(s, skip_whitespace(s, j + 1), members)
        ELSE ScanFail

\* json.loads: the value, or JSONDecodeErrorValue when it raises.
json_loads_chars(s) ==
    LET v == scan_once(s, skip_whitespace(s, 1)) IN
    IF ~v.ok THEN JSONDecodeErrorValue
    ELSE IF skip_whitespace(s, v.next) # Len(s) + 1 THEN JSONDecodeErrorValue
    ELSE v.val

\* ---- extract_json -------------------------------------------------------
\* The text after "Strip markdown code fences".
strip_code_fences(text) ==
    LET s0 == strip(text)
        s1 == join(<<NL>>, Tail(splitlines(s0)))
        s2 == IF endswith(rstrip(s1), Fence)
              THEN SubSeq(rstrip(s1), 1, Len(rstrip(s1)) - 3) ELSE s1
    IN  IF startswith(s0, Fence) THEN strip(s2) ELSE s0

\* The slice from the first '{' or '[' to the last '}' or ']', parsed.
parse_snippet(s) ==
    LET start_candidates == {i \in {find(s, "{"), find(s, "[")} : i # -1}
        start == MinOf(start_candidates)
        end == MaxOf({rfind(s, "}"), rfind(s, "]")})
    IN  IF start_candidates = {} THEN JSONDecodeErrorValue
        ELSE IF end <= start THEN JSONDecodeErrorValue
        ELSE json_loads_chars(SubSeq(s, start + 1, end + 1))

\* extract_json looking for the slice before it tries the whole text.
extract_json_chars_snippet_first(text) ==
    LET s == strip_code_fences(text) IN
    IF parse_snippet(s) # JSONDecodeErrorValue THEN parse_snippet(s) ELSE json_loads_chars(s)

extract_json_chars(text) ==
    LET s == strip_code_fences(text) IN
    IF json_loads_chars(s) # JSONDecodeErrorValue THEN json_loads_chars(s) ELSE parse_snippet(s)

InitJson ==
    /\ \/ /\ shape = "short"
          /\ inner_text = <<>>
          /\ raw_text \in ShortTexts
       \/ /\ shape = "fence"
          /\ inner_text \in InnerObjects
          /\ \E lead \in Pads, tag \in LanguageTags, sep \in Pads, trail \in Pads :
                raw_text = FencedText(lead, tag, inner_text, sep, trail)
       \/ /\ shape = "prose"
          /\ inner_text \in InnerObjects
          /\ \E trail \in Pads \cup {<<" ", "a">>} : raw_text = ProseText(inner_text, trail)
    /\ json_pc = "start"
    /\ json_out = None
    /\ TextAtRest
    /\ PollAtRest
    /\ AssetsAtRest
    /\ KeyAtRest
    /\ LessonAtRest
    /\ ResAtRest
    /\ PipeAtRest
    /\ CacheAtRest

extract_json_call ==
    /\ json_pc = "start"
    /\ json_out' = extract_json_chars(raw_text)
    /\ json_pc' = "done"
    /\ UNCHANGED <<shape, inner_text, raw_text>>
    /\ UNCHANGED <<text_vars, poll_vars, asset_vars, key_vars, lesson_vars, res_vars, pipe_vars, cache_vars>>

NextJson == extract_json_call

SpecJson == InitJson /\ [][NextJson]_vars

\* C31: for every text that json.loads parses, extract_json returns the
\* value json.loads returns.
C31_IdempotentOnValidJson ==
    (json_pc = "done" /\ json_loads_chars(raw_text) # JSONDecodeErrorValue)
        => json_out = json_loads_chars(raw_text)

\* C31: a JSON string whose content is a pair of braces is returned as the
\* string, not as an object.
C31_Witness ==
    /\ json_pc = "done"
    /\ raw_text = <<QUOTE, "{", "}", QUOTE>>
    /\ json_out = JsonValue("str", <<"{", "}">>, <<>>)

\* C32: for a code fence, with or without language tag and surrounding white
\* space, around a valid JSON object, extract_json returns what json.loads
\* returns for the inner text.
C32_FenceEqualsInner ==
    (json_pc = "done" /\ shape = "fence") => json_out = json_loads_chars(inner_text)

\* The stage handled an answer that extract_json turns into an object.
HandledWrappedObject ==
    /\ handled.kind = "text"
    /\ handled.wrap \in {"fenced", "prose"}
    /\ handled.value.shape = "object"

\* C34: in every generator, on either provider, an answer that holds a JSON
\* object inside a code fence or prose is parsed and handed to the schema;
\* it is not declared malformed.
C34_SameParseStep ==
    HandledWrappedObject => validation.ran

\* The first answer of the chain was JSON as it stands, but an array, a
\* string or a number, and the stage has handled it.
FirstAnswerNonObject ==
    /\ calls = 1
    /\ handled.kind = "text"
    /\ handled.wrap = "plain"
    /\ handled.value \in NonObjects

\* C35: a first answer that is valid JSON but not an object is retried once,
\* as a schema validation failure is.
C35_NonObjectRetried ==
    FirstAnswerNonObject => (pc = "calling" /\ retry_count = 1)

\* What generator g does with answer resp in invocation rc.
StepOf(g, prov, rc, resp, ids) ==
    CASE g = "librarian" -> extract_topics_step(prov, rc, resp)
      [] g = "steering" -> generate_image_prompts_step(rc, resp)
      [] g = "director" -> generate_lesson_manifest_step(prov, rc, resp, ids)

\* The failure class of an answer that ends a chain whose budget is spent:
\* no text at all, text that no parse step of any stage accepts, or an
\* object that the schema rejects.
FailureClass(g, prov, resp, ids) ==
    IF resp.kind = "empty" THEN "empty"
    ELSE IF resp.kind # "text" THEN "other"
    ELSE IF extract_json(resp) = JSONDecodeError THEN "malformed"
    ELSE LET o == StepOf(g, prov, MaxRetries, resp, ids) IN
         IF o.validation.ran /\ o.validation.errors # {} THEN "schema" ELSE "other"

\* C36: with the budget spent, the error a generator ends in tells an empty
\* answer, malformed JSON and a schema violation apart by its class or code:
\* no answer of another of these failure classes ends in the same class and
\* code.
C36_FailureClassesTypedApart ==
    (pc = "failed" /\ retry_count = MaxRetries
        /\ FailureClass(gen, provider, handled, asset_ids) \in {"malformed", "schema"}) =>
        LET o == StepOf(gen, provider, MaxRetries, EmptyResponse, asset_ids) IN
        o.err.class # err.class \/ o.err.code # err.code

\* C37: an answer whose status is neither completed nor failed keeps the
\* loop polling (asleep, or awake for its next request) unless the deadline
\* has passed; the loop returns only on a completed status with at least one
\* output URL, and raises only on a failed status, an error answer, a
\* completed status without output URLs, or the timeout.
C37_OtherStatusKeepsPolling ==
    /\ (Pending /\ poll_pc \notin {"sleeping", "polling"}) =>
            (poll_pc = "raised" /\ poll_out.cause = "timeout" /\ now >= deadline)
    /\ poll_pc = "returned" =>
            /\ poll_response.kind = "payload"
            /\ poll_response.status = 1
            /\ Len(poll_response.output_urls) >= 1
            /\ poll_out.output_urls = poll_response.output_urls
    /\ poll_pc = "raised" =>
            \/ poll_response.kind \in {"http_error", "not_success", "client_error"}
            \/ poll_response.kind = "payload" /\ poll_response.status = -1
            \/ Pending /\ poll_out.cause = "timeout"
            \/ /\ poll_response.kind = "payload"
               /\ poll_response.status = 1
               /\ poll_response.output_urls = <<>>
               /\ poll_out.cause = "no output_urls"
    /\ (poll_response.kind = "payload" /\ poll_response.status = 1
            /\ poll_response.output_urls = <<>>) => poll_pc = "raised"

\* C37: after two answers with another status the loop is asleep before its
\* third request.
C37_Witness ==
    /\ poll_pc = "sleeping"
    /\ Pending
    /\ poll_count = 2
    /\ now < deadline

\* C37: a completed answer without output URLs ended the loop in an error.
C37_WitnessNoOutput ==
    /\ poll_pc = "raised"
    /\ poll_response.kind = "payload"
    /\ poll_response.status = 1
    /\ poll_response.output_urls = <<>>

\* The audio is not empty and no duration was read from it.
Unmeasured == audio_bytes /\ probe # "length"

\* C38: a request whose narration audio is not empty but could not be
\* measured is not answered with a lesson.
C38_UnmeasuredAudioNotPassed ==
    (lesson_pc = "answered" /\ Unmeasured) => Rejected

(***************************************************************************)
(* The two lesson endpoints from request to answer: POST /generate         *)
(* (generate_assets.py) and POST /generate-lesson (generate_lesson.py),    *)
(* with TTSService.synthesize_narration.  The providers of the prompt,     *)
(* image and manifest stages answer with valid output.  A handler is one   *)
(* coroutine that shares nothing with other requests: it is one step.      *)
(* Narration texts are sequences of characters; durations are in           *)
(* hundredths of a second.                                                 *)
(***************************************************************************)
MaxPipeScenes == 2

\* The text of a voiceover segment: empty, blank or words.
NarrationTexts == {<<>>, <<" ">>, <<"w">>}

PipeSceneCatalog ==
    { Scene(<<"cp1", "cp2">>, <<VisualEvent("asset_0", "cp1")>>, "quiz"),
      Scene(<<>>, <<>>, "quiz"),
      Scene(<<"cp1">>, <<>>, "none") }

\* asset_ids of both handlers: one ID per image of the bundle.
PipeAssetIds == <<"asset_0", "asset_1", "asset_2", "asset_3", "asset_4">>

\* Manifests that AIDirectorService.generate_lesson_manifest returns.
PipeManifests ==
    { m \in [shape : {"object"}, well_typed : {TRUE},
             lesson_duration_sec : {50 * Centi, MaxLessonDurationSec * Centi},
             scenes : SeqUpTo(PipeSceneCatalog, MaxPipeScenes)] :
        generate_lesson_manifest_step("gemini", 0,
            [kind |-> "text", wrap |-> "plain", value |-> m], PipeAssetIds).act = "return" }

\* The texts of the voiceover segments of a scene list, scene by scene.
NarrationsOf(scenes) ==
    { t \in [1..Len(scenes) -> SeqUpTo(NarrationTexts, 2)] :
        \A i \in 1..Len(scenes) : Len(t[i]) = Len(scenes[i].voiceover) }

\* narration_segments: the voiceover segments of all scenes, in order.
RECURSIVE narration_segments(_, _)
narration_segments(scenes, texts) ==
    IF scenes = <<>> THEN <<>>
    ELSE [j \in 1..Len(scenes[1].voiceover) |->
             [text |-> texts[1][j], checkpointId |-> scenes[1].voiceover[j]]]
         \o narration_segments(Tail(scenes), Tail(texts))

\* " ... " between two segments.
Pause == <<" ", ".", ".", ".", " ">>

ElevenLabsAPIError(status_code) ==
    [class |-> "ElevenLabsAPIError", code |-> "ELEVENLABS_API_ERROR", status_code |-> status_code]

\* How the ElevenLabs call ends: audio, no audio at all, or an exception
\* whose text names the API key, the quota, or neither.
TtsAnswers == {"audio", "empty", "auth", "quota", "error"}

\* A client exists: built from the key of the request, else from settings.
has_client(request_key, default_key) == request_key # "" \/ default_key # ""

\* TTSService.synthesize_narration: whether the bytes returned are non-empty,
\* or the exception raised.  The AudioGenerationError for empty audio is
\* raised inside the try block and re-raised as ElevenLabsAPIError.
synthesize_narration(segments, request_key, default_key, answer) ==
    LET full_text == join(Pause, [i \in 1..Len(segments) |-> segments[i].text]) IN
    IF strip(full_text) = <<>>
    THEN [act |-> "raise", exc |-> AudioGenerationError]
    ELSE IF ~has_client(request_key, default_key)
    THEN [act |-> "return", bytes |-> FALSE]
    ELSE CASE answer = "audio" -> [act |-> "return", bytes |-> TRUE]
           [] answer = "empty" -> [act |-> "raise", exc |-> ElevenLabsAPIError(None)]
           [] answer = "auth" -> [act |-> "raise", exc |-> ElevenLabsAPIError(401)]
           [] answer = "quota" -> [act |-> "raise", exc |-> ElevenLabsAPIError(429)]
           [] OTHER -> [act |-> "raise", exc |-> ElevenLabsAPIError(None)]

\* The parameters of ImageSteeringService.generate_image_prompts after self.
generate_image_prompts_params == {"topic_text", "retry_count"}

\* Python's binding of keyword arguments: a keyword that is no parameter
\* raises TypeError before the body runs.
bind_keywords(params, keywords) ==
    IF keywords \subseteq params THEN "bound" ELSE "TypeError"

PipeAnswer(out, ran, audio) == [out |-> out, stages |-> ran, audio |-> audio]

\* The body of a lesson answer: the number of assets in it (none in the
\* answer of POST /generate-lesson) and whether audio_url holds data.
LessonBody(rec, n_assets, bytes) ==
    [kind |-> rec.kind, status_code |-> rec.status_code, warned |-> rec.warned,
     assets |-> n_assets, audio_url |-> IF bytes THEN "data" ELSE "empty"]

\* Both handlers from the narration on: synthesize_narration, the duration
\* check when there is audio, and the answer.
narrate_and_reconcile(ep, ran, n_assets, manifest, texts, request_key, default_key, answer, how, length) ==
    LET handlers(e) == IF ep = "generate" THEN generate_handlers(e)
                       ELSE generate_lesson_handlers(e)
        tts == synthesize_narration(narration_segments(manifest.scenes, texts),
                                    request_key, default_key, answer)
        ran1 == Append(ran, "narration")
    IN  IF tts.act = "raise" THEN PipeAnswer(handlers(tts.exc), ran1, "none")
        ELSE LET rec == IF ep = "generate"
                        THEN generate_reconcile(tts.bytes, how, length,
                                                manifest.lesson_duration_sec)
                        ELSE generate_lesson_reconcile(tts.bytes, how, length,
                                                       manifest.lesson_duration_sec)
                 ran2 == IF tts.bytes THEN Append(ran1, "reconciliation") ELSE ran1
             IN  PipeAnswer(IF rec.kind = "response"
                            THEN LessonBody(rec, n_assets, tts.bytes) ELSE rec,
                            ran2, IF tts.bytes THEN "bytes" ELSE "empty")

\* POST /generate (generate_assets.py): prompts, assets, manifest, narration,
\* duration check.  Step 1 passes the keyword ai_config.
generate_pipeline(manifest, texts, request_key, default_key, answer, how, length) ==
    IF bind_keywords(generate_image_prompts_params, {"ai_config"}) = "TypeError"
    THEN PipeAnswer(generate_handlers([class |-> "TypeError", code |-> "none"]),
                    <<>>, "none")
    ELSE narrate_and_reconcile("generate", <<"prompts", "assets", "manifest">>,
                               Len(PipeAssetIds), manifest, texts, request_key,
                               default_key, answer, how, length)

\* POST /generate-lesson (generate_lesson.py): manifest, narration, duration
\* check.
generate_lesson_pipeline(manifest, texts, request_key, default_key, answer, how, length) ==
    narrate_and_reconcile("generate-lesson", <<"manifest">>, 0, manifest, texts,
                          request_key, default_key, answer, how, length)

\* A request has arrived; lesson_manifest is what the director will return.
InitPipe ==
    /\ pipe_endpoint \in Endpoints
    /\ lesson_manifest \in PipeManifests
    /\ narration_texts \in NarrationsOf(lesson_manifest.scenes)
    /\ elevenlabs_api_key \in {"", "request-key"}
    /\ settings_elevenlabs_api_key \in {"", "default-key"}
    /\ tts_answer \in IF has_client(elevenlabs_api_key, settings_elevenlabs_api_key)
                      THEN TtsAnswers ELSE {"none"}
    /\ mp3_probe \in IF tts_answer = "audio" THEN Probes ELSE {"none"}
    /\ mp3_length \in IF mp3_probe = "length" THEN {40 * Centi, 60 * Centi} ELSE {0}
    /\ pipe_pc = "request"
    /\ stages = <<>>
    /\ pipe_audio = "none"
    /\ pipe_out = None
    /\ TextAtRest
    /\ PollAtRest
    /\ AssetsAtRest
    /\ KeyAtRest
    /\ LessonAtRest
    /\ ResAtRest
    /\ JsonAtRest
    /\ CacheAtRest

Answer(a) ==
    /\ pipe_out' = a.out
    /\ stages' = a.stages
    /\ pipe_audio' = a.audio
    /\ pipe_pc' = "answered"
    /\ UNCHANGED <<pipe_endpoint, lesson_manifest, narration_texts, elevenlabs_api_key,
                   settings_elevenlabs_api_key, tts_answer, mp3_probe, mp3_length>>
    /\ UNCHANGED <<text_vars, poll_vars, asset_vars, key_vars, lesson_vars, res_vars, json_vars, cache_vars>>

post_generate ==
    /\ pipe_pc = "request"
    /\ pipe_endpoint = "generate"
    /\ Answer(generate_pipeline(lesson_manifest, narration_texts, elevenlabs_api_key,
                                settings_elevenlabs_api_key, tts_answer, mp3_probe,
                                mp3_length))

post_generate_lesson ==
    /\ pipe_pc = "request"
    /\ pipe_endpoint = "generate-lesson"
    /\ Answer(generate_lesson_pipeline(lesson_manifest, narration_texts,
                                       elevenlabs_api_key, settings_elevenlabs_api_key,
                                       tts_answer, mp3_probe, mp3_length))

NextPipe ==
    \/ post_generate
    \/ post_generate_lesson

SpecPipe == InitPipe /\ [][NextPipe]_vars

\* No ElevenLabs key: neither in the request nor in the settings.
NoTtsKey == elevenlabs_api_key = "" /\ settings_elevenlabs_api_key = ""

\* C33: without a TTS key and with valid provider output, POST /generate
\* answers with the lesson: 5 assets, a manifest of at most 5 scenes and at
\* most 180 s, empty audio, no duration check, after the stages prompts,
\* assets, manifest and narration in this order.
C33_FullPipelineCompletes ==
    (pipe_pc = "answered" /\ pipe_endpoint = "generate" /\ NoTtsKey) =>
        /\ pipe_out.kind = "response"
        /\ pipe_out.assets = RequiredPromptCount
        /\ pipe_out.audio_url = "empty"
        /\ Len(lesson_manifest.scenes) <= MaxSceneCount
        /\ lesson_manifest.lesson_duration_sec <= MaxLessonDurationSec * Centi
        /\ stages = <<"prompts", "assets", "manifest", "narration">>

\* C39: without a TTS key, POST /generate-lesson answers every manifest the
\* validator accepted with the lesson and empty audio, whatever its
\* narration texts.
C39_EmptyAudioForEveryManifest ==
    (pipe_pc = "answered" /\ pipe_endpoint = "generate-lesson" /\ NoTtsKey) =>
        /\ pipe_out.kind = "response"
        /\ pipe_out.audio_url = "empty"
        /\ pipe_audio = "empty"

(***************************************************************************)
(* The module-level singletons librarian, image_steering_service,          *)
(* ai_director_service, asset_factory_service and tts_service: the client  *)
(* each keeps in self._client (self._gemini_client) over calls with        *)
(* different credentials.  A call runs without yielding up to its provider *)
(* request, so that reading and filling the cache is one step.  A key is   *)
(* "" when not set, a client is named by the key it was built with.        *)
(***************************************************************************)
MaxRequests == 2

CacheServices == Services \cup {"tts"}

\* The key a call brings along: the Gemini key of its ai_config, or
\* elevenlabs_api_key for the narration.
RequestKeys == {"absent", "key-A", "key-B"}

CallRecords ==
    { c \in [svc : CacheServices, key : RequestKeys, pc : {"idle"}, used : {""}] :
        c.svc = "image_steering" => c.key = "absent" }

KeyConfig(key) == [gemini_api_key |-> key]

Entered(cache, api_key) == [act |-> "call", cache |-> cache, api_key |-> api_key]

Refused(cache) == [act |-> "raise", cache |-> cache, api_key |-> ""]

NoCall(cache) == [act |-> "return", cache |-> cache, api_key |-> ""]

\* _get_client of LibrarianService, ImageSteeringService and
\* AIDirectorService: what the cache holds after it.
get_client(cache, default_key) == IF cache = "" THEN default_key ELSE cache

\* The Gemini branch of extract_topics and generate_lesson_manifest up to
\* the provider request: the cached client, or a short-lived one when the
\* resolved key is not the default key.
text_service_enter(cache, key, default_key) ==
    IF default_key = "" THEN Refused(cache)
    ELSE LET kept == get_client(cache, default_key)
             api_key == resolve_gemini_api_key(KeyConfig(key), default_key)
         IN Entered(kept, IF api_key # default_key THEN api_key ELSE kept)

\* generate_image_prompts up to the provider request.
image_steering_enter(cache, default_key) ==
    IF default_key = "" THEN Refused(cache)
    ELSE Entered(get_client(cache, default_key), get_client(cache, default_key))

\* AssetFactoryService._get_gemini_client(api_key): what the cache holds
\* after it.
get_gemini_client(cache, api_key) == IF cache = "" THEN api_key ELSE cache

\* The Gemini branch of _generate_image_bytes up to the REST request, which
\* is signed with api_key.
asset_factory_enter(cache, key, default_key) ==
    LET api_key == resolve_gemini_api_key(KeyConfig(key), default_key) IN
    IF api_key = "" THEN Refused(cache)
    ELSE Entered(get_gemini_client(cache, api_key), api_key)

\* synthesize_narration up to the ElevenLabs request: a client of its own
\* for the key of the request, else TTSService._get_client.
tts_enter(cache, key, default_key) ==
    IF key # "absent" THEN Entered(cache, key)
    ELSE IF default_key = "" THEN NoCall(cache)
    ELSE Entered(get_client(cache, default_key), get_client(cache, default_key))

service_enter(svc_, cache, key, default_key) ==
    CASE svc_ \in {"librarian", "ai_director"} -> text_service_enter(cache, key, default_key)
      [] svc_ = "image_steering" -> image_steering_enter(cache, default_key)
      [] svc_ = "asset_factory" -> asset_factory_enter(cache, key, default_key)
      [] svc_ = "tts" -> tts_enter(cache, key, default_key)

\* The process has started: no client is cached, no call has begun.
InitCache ==
    /\ singleton_client = [s \in CacheServices |-> ""]
    /\ requests \in [1..MaxRequests -> CallRecords]
    /\ default_api_key \in SettingsKeys
    /\ TextAtRest
    /\ PollAtRest
    /\ AssetsAtRest
    /\ KeyAtRest
    /\ LessonAtRest
    /\ ResAtRest
    /\ JsonAtRest
    /\ PipeAtRest

\* Call r runs from its entry to its provider request.
service_call(r) ==
    /\ requests[r].pc = "idle"
    /\ LET c == requests[r]
           o == service_enter(c.svc, singleton_client[c.svc], c.key, default_api_key)
       IN /\ singleton_client' = [singleton_client EXCEPT ![c.svc] = o.cache]
          /\ requests' = [requests EXCEPT ![r] =
                 [c EXCEPT !.pc = CASE o.act = "call" -> "awaiting"
                                    [] o.act = "raise" -> "failed"
                                    [] o.act = "return" -> "done",
                           !.used = o.api_key]]
    /\ UNCHANGED default_api_key
    /\ UNCHANGED <<text_vars, poll_vars, asset_vars, key_vars, lesson_vars, res_vars, json_vars, pipe_vars>>

\* The provider answers call r.
provider_answer(r) ==
    /\ requests[r].pc = "awaiting"
    /\ requests' = [requests EXCEPT ![r].pc = "done"]
    /\ UNCHANGED <<singleton_client, default_api_key>>
    /\ UNCHANGED <<text_vars, poll_vars, asset_vars, key_vars, lesson_vars, res_vars, json_vars, pipe_vars>>

NextCache ==
    \/ \E r \in 1..MaxRequests : service_call(r)
    \/ \E r \in 1..MaxRequests : provider_answer(r)

SpecCache == InitCache /\ [][NextCache]_vars

\* C40: whatever calls have run, with whatever keys, every singleton caches
\* no client or the client of the default key, and every provider request
\* is made with the key its own call resolves to.
C40_NoRequestKeyRetained ==
    /\ \A s \in CacheServices : singleton_client[s] \in {"", default_api_key}
    /\ \A r \in 1..MaxRequests :
           requests[r].pc \in {"awaiting", "done"} /\ requests[r].used # "" =>
               requests[r].used =
                   resolve_gemini_api_key(KeyConfig(requests[r].key), default_api_key)

====
